---------------------------- MODULE Spec2Model ----------------------------
(***************************************************************************)
(* A model of the retrieval and conversation core of the multi-agent chat  *)
(* system: the chunker (RAGService._split_text), document ingestion        *)
(* (RAGService.process_document / remove_document_by_filename), user       *)
(* sessions (CRMService.*_session), the profile merge                      *)
(* (ChatAgent._update_user_info) and the chat turn                         *)
(* (ChatAgent.process_message), handled by one worker or by two at once.   *)
(*                                                                         *)
(* Each component has a specification of its own over the shared           *)
(* variables; a component's actions leave the other components' variables  *)
(* unchanged.                                                              *)
(*                                                                         *)
(* Text is a sequence of one-character strings.  Indices into a text are   *)
(* kept 0-based, as in the Python source, and converted where a sequence   *)
(* is accessed.                                                            *)
(***************************************************************************)
EXTENDS Integers, Sequences, FiniteSets, TLC

VARIABLES
    \* ---- RAGService._split_text
    text,           \* the text being split
    chunk_size,     \* settings.chunk_size
    overlap,        \* settings.chunk_overlap
    start,          \* the loop's window start
    chunks,         \* the list being returned
    slices,         \* history: the <<start, end>> of every text[start:end] taken
    visited,        \* history: the window starts already processed by the loop
    spc,            \* "call" | "loop" | "done"
    \* ---- the relational store
    users,          \* table users: user id -> profile row
    user_sessions,  \* table user_sessions: the rows, in insertion order
    documents,      \* table documents: the rows, in insertion order
    \* ---- the vector index
    collection,     \* the ChromaDB collection: its items, in insertion order
    \* ---- conversations
    conversations,  \* table conversations: the rows, in insertion order
    messages,       \* table messages: the rows, in insertion order
    turn,           \* per worker, the call of process_message it is running
    started,        \* how many turns have been started
    session_calls,  \* per worker, the call of create_user_session it is running
    \* ---- the environment
    stamp,          \* how many timestamps process_document has drawn for ids
    ingested,       \* history: per filename, the contents ingested in a row
    now,            \* the wall clock (datetime.utcnow()), in hours
    last            \* history: the operation that ran last, with its arguments

chunkVars == <<text, chunk_size, overlap, start, chunks, slices, visited, spc>>

sessionVars == <<users, user_sessions, now>>

ingestVars == <<documents, collection, stamp, ingested>>

turnVars == <<conversations, messages, turn, started>>

vars == <<chunkVars, sessionVars, ingestVars, turnVars, session_calls, last>>

\* What the actions of one component leave alone.
notChunkVars == <<sessionVars, ingestVars, turnVars, session_calls, last>>
notSessionVars == <<chunkVars, ingestVars, turnVars, session_calls>>
notIngestVars ==
    <<text, start, chunks, slices, visited, spc, sessionVars, turnVars,
      session_calls>>
notTurnVars == <<chunkVars, ingestVars, now, session_calls, last>>

(***************************************************************************)
(* Generic helpers                                                         *)
(***************************************************************************)
Max(S) == CHOOSE x \in S : \A y \in S : y <= x

Range(f) == {f[i] : i \in DOMAIN f}

\* All sequences over S of length 0..n.
SeqUpTo(S, n) == UNION {[1..k -> S] : k \in 0..n}

(***************************************************************************)
(* Python string primitives, on sequences of characters                    *)
(***************************************************************************)
\* The characters str.strip() removes; the model's alphabet has one of them.
Whitespace == {" "}

\* How Python clamps a slice index i for a sequence of length n.
SliceIndex(i, n) ==
    IF i < 0 THEN (IF i + n < 0 THEN 0 ELSE i + n)
    ELSE (IF i > n THEN n ELSE i)

\* t[s:e]
PySlice(t, s, e) ==
    LET a == SliceIndex(s, Len(t))
        b == SliceIndex(e, Len(t))
    IN  IF a >= b THEN <<>> ELSE SubSeq(t, a + 1, b)

\* t.rfind(c, s, e): the highest 0-based index in the slice holding c, or -1.
PyRFind(t, c, s, e) ==
    LET a == SliceIndex(s, Len(t))
        b == SliceIndex(e, Len(t))
        hits == {i \in a..(b - 1) : t[i + 1] = c}
    IN  IF hits = {} THEN -1 ELSE Max(hits)

\* t.strip()
PyStrip(t) ==
    LET keep == {i \in 1..Len(t) : t[i] \notin Whitespace}
    IN  IF keep = {} THEN <<>>
        ELSE SubSeq(t, CHOOSE i \in keep : \A j \in keep : i <= j, Max(keep))

(***************************************************************************)
(* RAGService._split_text                                                  *)
(***************************************************************************)
\* Bounds of the chunker's inputs.
MaxTextLen == 7
MaxChunkSize == 6
MaxOverlap == 2
\* Cap on loop iterations, so that a run that never leaves the loop stays
\* finite: no run that leaves the loop needs more (start stays >= -overlap
\* and never repeats).
MaxIter == MaxTextLen + MaxOverlap + 1

Chars == {"a", ".", " "}

\* The window end the loop body chooses for window start s.
WindowEnd(t, cs, s) ==
    LET raw == s + cs
        sentence_end == PyRFind(t, ".", s, raw)
        word_end == PyRFind(t, " ", s, raw)
    IN  IF raw < Len(t)
        THEN IF sentence_end > s THEN sentence_end + 1
             ELSE IF word_end > s THEN word_end
             ELSE raw
        ELSE raw

\* The chunk appended for the window [s, e).
ChunkOf(t, s, e) == PyStrip(PySlice(t, s, e))

\* The next window start.
NextStart(e, ov) == e - ov

\* A variant of the early return that trims, as the loop's chunks are trimmed.
ShortResult_Trimmed(t) == <<PyStrip(t)>>

\* The early return for a text that fits one chunk.
ShortResult(t) == <<t>>

\* The chunker at rest, for the specifications of the other components.
ChunkIdle ==
    /\ text = <<>>
    /\ chunk_size = 1
    /\ overlap = 0
    /\ start = 0
    /\ chunks = <<>>
    /\ slices = <<>>
    /\ visited = {}
    /\ spc = "done"

\* An empty store and the clock at 0.
StoreEmpty ==
    /\ users = <<>>
    /\ user_sessions = <<>>
    /\ now = 0

Filenames == {"a.txt", "b.txt"}

\* No document and an empty index.
IndexEmpty ==
    /\ documents = <<>>
    /\ collection = <<>>
    /\ stamp = 0
    /\ ingested = [f \in Filenames |-> <<>>]

\* No conversation, and no worker handling a request.
NoTurns ==
    /\ conversations = <<>>
    /\ messages = <<>>
    /\ turn = <<>>
    /\ started = 0
    /\ session_calls = <<>>

NoOp == [op |-> "none"]

ChunkInit ==
    /\ text \in SeqUpTo(Chars, MaxTextLen)
    /\ chunk_size \in 1..MaxChunkSize
    /\ overlap \in 0..MaxOverlap
    /\ start = 0
    /\ chunks = <<>>
    /\ slices = <<>>
    /\ visited = {}
    /\ spc = "call"
    /\ StoreEmpty
    /\ IndexEmpty
    /\ NoTurns
    /\ last = NoOp

\* if len(text) <= chunk_size: return [text]
SplitShort ==
    /\ spc = "call"
    /\ Len(text) <= chunk_size
    /\ chunks' = ShortResult(text)
    /\ slices' = <<<<0, Len(text)>>>>
    /\ spc' = "done"
    /\ UNCHANGED <<text, chunk_size, overlap, start, visited>>
    /\ UNCHANGED notChunkVars

\* chunks = []; start = 0; enter the while loop (len(text) > chunk_size >= 1,
\* so the loop condition holds on entry).
SplitEnter ==
    /\ spc = "call"
    /\ Len(text) > chunk_size
    /\ spc' = "loop"
    /\ UNCHANGED <<text, chunk_size, overlap, start, chunks, slices, visited>>
    /\ UNCHANGED notChunkVars

\* One iteration of the while loop, from its head to the next test of
\* start < len(text).
SplitIterate ==
    /\ spc = "loop"
    /\ Len(chunks) < MaxIter
    /\ LET end == WindowEnd(text, chunk_size, start)
           nxt == NextStart(end, overlap)
       IN  /\ chunks' = Append(chunks, ChunkOf(text, start, end))
           /\ slices' = Append(slices, <<start, end>>)
           /\ visited' = visited \cup {start}
           /\ start' = nxt
           /\ spc' = IF nxt >= Len(text) THEN "done" ELSE "loop"
    /\ UNCHANGED <<text, chunk_size, overlap>>
    /\ UNCHANGED notChunkVars

ChunkNext == SplitShort \/ SplitEnter \/ SplitIterate

SpecChunk == ChunkInit /\ [][ChunkNext]_vars

\* The 0-based positions of t that the slice t[s:e] holds.
SlicePositions(t, s, e) ==
    LET a == SliceIndex(s, Len(t))
        b == SliceIndex(e, Len(t))
    IN  a..(b - 1)

\* C4: _split_text terminates for every text and every settable chunk_size
\* and chunk_overlap: the window start advances strictly on every
\* iteration, so the loop never comes back to a window start it has
\* already processed (the loop body is a function of start alone, so coming
\* back to one means the loop never exits).
C4_SplitTerminates == ~(spc = "loop" /\ start \in visited)

\* C5: for a text longer than chunk_size, the slices text[start:end] the
\* loop takes together hold every character position of the text.
C5_ChunkCoverage ==
    (spc = "done" /\ Len(text) > chunk_size) =>
        \A p \in 0..(Len(text) - 1) :
            \E i \in 1..Len(slices) :
                p \in SlicePositions(text, slices[i][1], slices[i][2])

MaxIngests == 3

\* The settings ingestion runs under, and the document bodies: one that
\* fits a chunk and one that is cut into several.
IngestChunkSize == 2
Contents == {<<"a">>, <<"a", ".", "a", "a", "a">>}

\* _split_text as a function: the chunks of t.  (The bodies above leave the
\* loop under the settings above; n only bounds the recursion.)
RECURSIVE SplitFrom(_, _, _, _, _)
SplitFrom(t, cs, ov, s, n) ==
    IF n = 0 THEN <<>>
    ELSE LET e == WindowEnd(t, cs, s)
             nxt == NextStart(e, ov)
         IN  <<ChunkOf(t, s, e)>>
                 \o (IF nxt >= Len(t) THEN <<>> ELSE SplitFrom(t, cs, ov, nxt, n - 1))

SplitText(t, cs, ov) ==
    IF Len(t) <= cs THEN ShortResult(t) ELSE SplitFrom(t, cs, ov, 0, MaxIter)

\* Which operations of a call fail: collection.get/delete and the commit
\* inside remove_document_by_filename, collection.add, and the commit of the
\* Document row.
Faults == [purge : BOOLEAN, remove_commit : BOOLEAN, add : BOOLEAN,
           document_commit : BOOLEAN]
NoFaults == [purge |-> FALSE, remove_commit |-> FALSE, add |-> FALSE,
             document_commit |-> FALSE]

\* The active Document rows named f.
ActiveDocuments(D, f) ==
    {i \in DOMAIN D : D[i].filename = f /\ D[i].is_active}

\* A variant of the purge that deletes the chunks of every file.
PurgeChunks_All(C, f) == <<>>

\* A variant of the purge that deletes nothing.
PurgeChunks_Keep(C, f) == C

\* remove_document_by_filename: delete every item whose metadata filename is f.
PurgeChunks(C, f) == SelectSeq(C, LAMBDA c : c.filename # f)

\* remove_document_by_filename(f): what it can leave and return.  first() has
\* no ORDER BY, so any active row named f may be the one found.  A failure of
\* the index is logged and the row is still committed inactive; a failure of
\* the commit rolls the row back, after the chunks are gone, and False is
\* returned.
RemoveDocumentByFilename(D, C, f, faults) ==
    IF ActiveDocuments(D, f) = {}
    THEN {[documents |-> D, collection |-> C, ret |-> FALSE]}
    ELSE {[documents |-> IF faults.remove_commit THEN D
                         ELSE [D EXCEPT ![i].is_active = FALSE],
           collection |-> IF faults.purge THEN C ELSE PurgeChunks(C, f),
           ret |-> ~faults.remove_commit] : i \in ActiveDocuments(D, f)}

\* The items process_document adds for document id doc_id.
NewChunks(doc_id, f, content, cs, ov) ==
    LET parts == SplitText(content, cs, ov)
    IN  [i \in 1..Len(parts) |->
            [id |-> <<doc_id, i - 1>>, document |-> parts[i], filename |-> f,
             chunk_index |-> i - 1, total_chunks |-> Len(parts)]]

\* A variant in which a failure of collection.add is dropped and the
\* Document row is committed all the same.
ProcessDocument_AddSwallowed(D, C, f, content, ts, cs, ov, faults) ==
    {LET C2 == IF faults.add THEN r.collection
               ELSE r.collection \o NewChunks(<<f, ts>>, f, content, cs, ov)
     IN  IF faults.document_commit
         THEN [documents |-> r.documents, collection |-> C2, raised |-> TRUE]
         ELSE [documents |->
                   Append(r.documents,
                          [id |-> Len(r.documents) + 1, filename |-> f,
                           content |-> content, is_active |-> TRUE]),
               collection |-> C2, raised |-> FALSE]
     : r \in RemoveDocumentByFilename(D, C, f, faults)}

\* process_document(content, f, ...): what it can leave, and whether it
\* returns the new document's id or raises.
ProcessDocument(D, C, f, content, ts, cs, ov, faults) ==
    {IF faults.add
     THEN [documents |-> r.documents, collection |-> r.collection, raised |-> TRUE]
     ELSE LET C2 == r.collection \o NewChunks(<<f, ts>>, f, content, cs, ov)
          IN  IF faults.document_commit
              THEN [documents |-> r.documents, collection |-> C2, raised |-> TRUE]
              ELSE [documents |->
                        Append(r.documents,
                               [id |-> Len(r.documents) + 1, filename |-> f,
                                content |-> content, is_active |-> TRUE]),
                    collection |-> C2, raised |-> FALSE]
     : r \in RemoveDocumentByFilename(D, C, f, faults)}

\* Keep the last two entries of a history.
LastTwo(h) == IF Len(h) <= 2 THEN h ELSE SubSeq(h, Len(h) - 1, Len(h))

IngestInit ==
    /\ IndexEmpty
    /\ NoTurns
    /\ StoreEmpty
    /\ text = <<>>
    /\ chunk_size = IngestChunkSize
    /\ overlap = 0
    /\ start = 0
    /\ chunks = <<>>
    /\ slices = <<>>
    /\ visited = {}
    /\ spc = "done"
    /\ last = NoOp

\* A call of process_document in which no operation fails.
IngestDocument(f, content) ==
    /\ stamp < MaxIngests
    /\ \E r \in ProcessDocument(documents, collection, f, content, stamp + 1,
                                chunk_size, overlap, NoFaults) :
        /\ documents' = r.documents
        /\ collection' = r.collection
    /\ stamp' = stamp + 1
    /\ ingested' = [ingested EXCEPT ![f] = LastTwo(Append(@, content))]
    /\ last' = [op |-> "process_document", filename |-> f]
    /\ UNCHANGED <<chunk_size, overlap>>
    /\ UNCHANGED notIngestVars

\* DELETE /rag/documents/{filename} -> remove_document_by_filename(f), with
\* no operation failing.
RemoveDocument(f) ==
    /\ \E r \in RemoveDocumentByFilename(documents, collection, f, NoFaults) :
        /\ documents' = r.documents
        /\ collection' = r.collection
    /\ ingested' = [ingested EXCEPT ![f] = <<>>]
    /\ last' = [op |-> "remove_document_by_filename", filename |-> f]
    /\ UNCHANGED <<stamp, chunk_size, overlap>>
    /\ UNCHANGED notIngestVars

\* DELETE /rag/clear -> clear_collection(): the collection is dropped and
\* recreated and every Document row is made inactive.
ClearCollection ==
    /\ collection' = <<>>
    /\ documents' = [i \in DOMAIN documents |->
                        [documents[i] EXCEPT !.is_active = FALSE]]
    /\ ingested' = [f \in Filenames |-> <<>>]
    /\ last' = [op |-> "clear_collection"]
    /\ UNCHANGED <<stamp, chunk_size, overlap>>
    /\ UNCHANGED notIngestVars

IngestNext ==
    \/ \E f \in Filenames, content \in Contents : IngestDocument(f, content)
    \/ \E f \in Filenames : RemoveDocument(f)
    \/ ClearCollection

SpecIngest == IngestInit /\ [][IngestNext]_vars

\* The items of the index whose metadata filename is f.
ChunksOf(f) == SelectSeq(collection, LAMBDA c : c.filename = f)

\* C1: once process_document has run twice in a row for a filename (each
\* call completing with none of its operations failing), exactly one
\* Document row of that filename is active, and the items of the index with
\* that filename are exactly the chunks of the second ingestion: as many as
\* it produced, with its texts, all under one document id.
C1_ReplaceOnReingest ==
    \A f \in Filenames :
        Len(ingested[f]) >= 2 =>
            LET second == SplitText(ingested[f][Len(ingested[f])],
                                    chunk_size, overlap)
                items == ChunksOf(f)
            IN  /\ Cardinality(ActiveDocuments(documents, f)) = 1
                /\ \A i \in ActiveDocuments(documents, f) :
                       documents[i].content = ingested[f][Len(ingested[f])]
                /\ Len(items) = Len(second)
                /\ \A i \in 1..Len(items) :
                       /\ items[i].document = second[i]
                       /\ items[i].chunk_index = i - 1
                       /\ items[i].total_chunks = Len(second)
                       /\ items[i].id[1] = items[1].id[1]

\* C1's case: a filename was ingested twice in a row, the two ingestions
\* producing different numbers of chunks, and both Document rows exist.
C1_ReingestedWithOtherContent ==
    \E f \in Filenames :
        /\ Len(ingested[f]) = 2
        /\ Len(SplitText(ingested[f][1], chunk_size, overlap))
               > Len(SplitText(ingested[f][2], chunk_size, overlap))
        /\ Cardinality({i \in DOMAIN documents : documents[i].filename = f}) >= 2
        /\ last = [op |-> "process_document", filename |-> f]

(***************************************************************************)
(* Users and user sessions (ChatAgent._ensure_user_exists, CRMService)     *)
(***************************************************************************)
UserIds == {"u1", "u2"}

\* Bounds: the rows of user_sessions and the clock.
MaxSessions == 3
MaxClock == 36
\* The steps the clock advances by, in hours.
TickSteps == {12}

\* expires_in_hours / extend_hours: the defaults, and what
\* _ensure_session_exists passes.
ExpiresInHours == 24
ExtendHours == 24

\* Python's None, for a nullable text column (a text is a sequence of
\* one-character strings, which this is not).
None == <<"None">>

\* The row User(id=user_id) inserts.  (preferences is NULL for a regular id
\* and {} for an 'anonymous-' or 'session-' id; both are empty and falsy and
\* the model does not tell them apart.)
NewUser ==
    [name |-> None, email |-> None, phone |-> None, company |-> None,
     role |-> None, preferences |-> <<>>]

\* _ensure_user_exists: the users table afterwards.
EnsureUserExists(U, u) ==
    IF u \in DOMAIN U THEN U
    ELSE [x \in DOMAIN U \cup {u} |-> IF x = u THEN NewUser ELSE U[x]]

\* The session_id a chat client sends: a string of its own, or the id or the
\* token of a user_sessions row it was given.
ClientSessionIds ==
    {[kind |-> "client", v |-> 1]}
        \cup {[kind |-> k, v |-> i] : k \in {"id", "token"}, i \in 1..MaxSessions}

\* session_id in str(session_token) or session_id in str(id): a client's own
\* string is taken to be a substring of no random token or uuid.
SessionIdMatches(sid, row) ==
    \/ sid.kind = "token" /\ sid.v = row.session_token
    \/ sid.kind = "id" /\ sid.v = row.id

\* A variant of the deactivation loop that deactivates nothing.
DeactivateSessions_Skip(S, u) == S

\* create_user_session: for session in existing_sessions: is_active = False
DeactivateSessions(S, u) ==
    [i \in DOMAIN S |->
        IF S[i].user_id = u /\ S[i].is_active
        THEN [S[i] EXCEPT !.is_active = FALSE] ELSE S[i]]

\* create_user_session: the table after the commit (the user exists).
CreateUserSessionRows(S, u, t, hours) ==
    Append(DeactivateSessions(S, u),
           [id |-> Len(S) + 1, user_id |-> u, session_token |-> Len(S) + 1,
            created_at |-> t, expires_at |-> t + hours, is_active |-> TRUE])

\* The rows with this token and is_active, as extend_session and
\* revoke_session look them up (session_token is unique).
ActiveByToken(S, tok) ==
    {i \in DOMAIN S : S[i].session_token = tok /\ S[i].is_active}

\* extend_session: the table afterwards.
ExtendSessionRows(S, tok, t, hours) ==
    [i \in DOMAIN S |->
        IF i \in ActiveByToken(S, tok)
        THEN [S[i] EXCEPT !.expires_at = t + hours] ELSE S[i]]

\* revoke_session: the table afterwards.
RevokeSessionRows(S, tok) ==
    [i \in DOMAIN S |->
        IF i \in ActiveByToken(S, tok)
        THEN [S[i] EXCEPT !.is_active = FALSE] ELSE S[i]]

\* cleanup_expired_sessions: the table afterwards.
CleanupRows(S, t) ==
    [i \in DOMAIN S |->
        IF S[i].expires_at < t /\ S[i].is_active
        THEN [S[i] EXCEPT !.is_active = FALSE] ELSE S[i]]

\* get_user_sessions: the rows returned (their indices).
GetUserSessions(S, u, active_only, t) ==
    {i \in DOMAIN S :
        /\ S[i].user_id = u
        /\ active_only => (S[i].is_active /\ S[i].expires_at > t)}

\* A variant of the token lookup that does not compare expires_at.
ValidByToken_ExpiryIgnored(S, tok, t) ==
    {i \in DOMAIN S : S[i].session_token = tok /\ S[i].is_active}

\* The query of validate_session and of get_user_session: the rows with this
\* token, is_active and expires_at > utcnow().
ValidByToken(S, tok, t) ==
    {i \in DOMAIN S :
        S[i].session_token = tok /\ S[i].is_active /\ S[i].expires_at > t}

\* validate_session: the User of the session, or None.
ValidateSession(S, U, tok, t) ==
    LET found == ValidByToken(S, tok, t)
    IN  IF found = {} THEN None
        ELSE LET i == CHOOSE i \in found : TRUE
             IN  IF S[i].user_id \in DOMAIN U
                 THEN <<"User", S[i].user_id, U[S[i].user_id]>>
                 ELSE None

\* get_user_session: the session as a dict, or None.
GetUserSession(S, tok, t) ==
    LET found == ValidByToken(S, tok, t)
    IN  IF found = {} THEN None
        ELSE LET i == CHOOSE i \in found : TRUE
             IN  <<"dict", [session_id |-> S[i].id, user_id |-> S[i].user_id,
                            session_token |-> S[i].session_token,
                            expires_at |-> S[i].expires_at,
                            created_at |-> S[i].created_at]>>

\* _ensure_session_exists: the tables it can leave.  The loop takes the first
\* matching row in created_at-descending order (any of them on a tie) and
\* extends it; with no match a session is created.
EnsureSessionExists(S, u, sid, t) ==
    LET existing == GetUserSessions(S, u, TRUE, t)
        matching == {i \in existing : SessionIdMatches(sid, S[i])}
        first == {i \in matching :
                     \A j \in matching : S[j].created_at <= S[i].created_at}
    IN  IF matching = {}
        THEN {CreateUserSessionRows(S, u, t, ExpiresInHours)}
        ELSE {ExtendSessionRows(S, S[i].session_token, t, ExtendHours) : i \in first}

SessionInit ==
    /\ StoreEmpty
    /\ IndexEmpty
    /\ NoTurns
    /\ ChunkIdle
    /\ last = NoOp

\* POST /sessions/create -> create_user_session(user_id).  For a user that
\* does not exist it raises ValueError and changes nothing.
CreateUserSession(u) ==
    /\ u \in DOMAIN users
    /\ Len(user_sessions) < MaxSessions
    /\ user_sessions' = CreateUserSessionRows(user_sessions, u, now, ExpiresInHours)
    /\ last' = [op |-> "create_user_session", user |-> u]
    /\ UNCHANGED <<users, now>>
    /\ UNCHANGED notSessionVars

\* POST /sessions/extend/{token} -> extend_session(token)
ExtendSession(tok) ==
    /\ ActiveByToken(user_sessions, tok) # {}
    /\ user_sessions' = ExtendSessionRows(user_sessions, tok, now, ExtendHours)
    /\ last' = [op |-> "extend_session", token |-> tok]
    /\ UNCHANGED <<users, now>>
    /\ UNCHANGED notSessionVars

\* POST /sessions/revoke/{token} -> revoke_session(token)
RevokeSession(tok) ==
    /\ ActiveByToken(user_sessions, tok) # {}
    /\ user_sessions' = RevokeSessionRows(user_sessions, tok)
    /\ last' = [op |-> "revoke_session", token |-> tok]
    /\ UNCHANGED <<users, now>>
    /\ UNCHANGED notSessionVars

\* POST /sessions/cleanup -> cleanup_expired_sessions()
CleanupExpiredSessions ==
    /\ user_sessions' = CleanupRows(user_sessions, now)
    /\ last' = [op |-> "cleanup_expired_sessions"]
    /\ UNCHANGED <<users, now>>
    /\ UNCHANGED notSessionVars

\* GET /sessions/validate/{token} -> validate_session(token), and
\* get_user_session(token): they read and change nothing.
LookUpSession(tok) ==
    /\ last' = [op |-> "validate_session", token |-> tok,
                user |-> ValidateSession(user_sessions, users, tok, now),
                session |-> GetUserSession(user_sessions, tok, now)]
    /\ UNCHANGED <<users, user_sessions, now>>
    /\ UNCHANGED notSessionVars

\* The IDENTIFY step of a chat turn: _ensure_user_exists, then
\* _ensure_session_exists.
Identify(u, sid) ==
    /\ Len(user_sessions) < MaxSessions
    /\ users' = EnsureUserExists(users, u)
    /\ user_sessions' \in EnsureSessionExists(user_sessions, u, sid, now)
    /\ last' = [op |-> "identify", user |-> u, session_id |-> sid]
    /\ UNCHANGED now
    /\ UNCHANGED notSessionVars

\* Time passes.
Tick ==
    /\ \E d \in TickSteps :
        /\ now + d <= MaxClock
        /\ now' = now + d
    /\ last' = [op |-> "tick"]
    /\ UNCHANGED <<users, user_sessions>>
    /\ UNCHANGED notSessionVars

SessionNext ==
    \/ \E u \in UserIds : CreateUserSession(u)
    \/ \E tok \in 1..MaxSessions : ExtendSession(tok)
    \/ \E tok \in 1..MaxSessions : RevokeSession(tok)
    \/ CleanupExpiredSessions
    \/ \E u \in UserIds, sid \in ClientSessionIds : Identify(u, sid)
    \/ \E tok \in 1..MaxSessions : LookUpSession(tok)
    \/ Tick

SpecSession == SessionInit /\ [][SessionNext]_vars

\* The rows of user u with is_active set.
ActiveSessionsOf(u) ==
    {i \in DOMAIN user_sessions :
        user_sessions[i].user_id = u /\ user_sessions[i].is_active}

\* C2: after any sequence of create_user_session, extend_session,
\* revoke_session, cleanup_expired_sessions and chat turns, every user has at
\* most one session with is_active set, and get_user_sessions(u,
\* active_only=True) returns at most one row.
C2_SingleActiveSession ==
    \A u \in UserIds :
        /\ Cardinality(ActiveSessionsOf(u)) <= 1
        /\ Cardinality(GetUserSessions(user_sessions, u, TRUE, now)) <= 1

\* C2's case: a session was just created for a user who had an active,
\* unexpired one, which is now inactive.
C2_SecondSessionCreated ==
    /\ last.op = "create_user_session"
    /\ \E i, j \in DOMAIN user_sessions :
        /\ i < j
        /\ user_sessions[i].user_id = last.user
        /\ user_sessions[j].user_id = last.user
        /\ ~user_sessions[i].is_active
        /\ user_sessions[i].expires_at > now
        /\ user_sessions[j].is_active
        /\ j = Len(user_sessions)


(***************************************************************************)
(* Texts of a conversation: a text is a sequence of characters.            *)
(***************************************************************************)
Upper ==
    <<"A", "B", "C", "D", "E", "F", "G", "H", "I", "J", "K", "L", "M",
      "N", "O", "P", "Q", "R", "S", "T", "U", "V", "W", "X", "Y", "Z">>
Lower ==
    <<"a", "b", "c", "d", "e", "f", "g", "h", "i", "j", "k", "l", "m",
      "n", "o", "p", "q", "r", "s", "t", "u", "v", "w", "x", "y", "z">>

\* str.lower()
PyLower(t) ==
    [i \in DOMAIN t |->
        IF \E k \in DOMAIN Upper : Upper[k] = t[i]
        THEN Lower[CHOOSE k \in DOMAIN Upper : Upper[k] = t[i]]
        ELSE t[i]]

\* keyword in text
Contains(t, kw) ==
    \E i \in 0..(Len(t) - Len(kw)) : SubSeq(t, i + 1, i + Len(kw)) = kw

\* any(keyword in text for keyword in keywords)
AnyIn(keywords, t) == \E kw \in keywords : Contains(t, kw)

\* " ".join(texts)
RECURSIVE JoinSpace(_)
JoinSpace(texts) ==
    IF texts = <<>> THEN <<>>
    ELSE IF Len(texts) = 1 THEN texts[1]
    ELSE texts[1] \o <<" ">> \o JoinSpace(Tail(texts))

\* s[-n:] of a list
LastN(s, n) == IF Len(s) <= n THEN s ELSE SubSeq(s, Len(s) - n + 1, Len(s))

\* _select_agent: real_estate_keywords and crm_keywords
RealEstateKeywords ==
    {<<"p", "r", "o", "p", "e", "r", "t", "y">>,
     <<"r", "e", "n", "t">>,
     <<"l", "e", "a", "s", "e">>,
     <<"o", "f", "f", "i", "c", "e">>,
     <<"s", "p", "a", "c", "e">>,
     <<"b", "u", "i", "l", "d", "i", "n", "g">>,
     <<"a", "d", "d", "r", "e", "s", "s">>,
     <<"s", "q", "u", "a", "r", "e", " ", "f", "e", "e", "t">>,
     <<"s", "f">>,
     <<"f", "l", "o", "o", "r">>,
     <<"s", "u", "i", "t", "e">>,
     <<"b", "r", "o", "k", "e", "r">>,
     <<"r", "e", "a", "l", " ", "e", "s", "t", "a", "t", "e">>,
     <<"c", "o", "m", "m", "e", "r", "c", "i", "a", "l">>,
     <<"r", "e", "s", "i", "d", "e", "n", "t", "i", "a", "l">>,
     <<"l", "i", "s", "t", "i", "n", "g">>,
     <<"a", "v", "a", "i", "l", "a", "b", "l", "e">>,
     <<"p", "r", "i", "c", "e">>}
CrmKeywords ==
    {<<"m", "y", " ", "n", "a", "m", "e", " ", "i", "s">>,
     <<"i", " ", "a", "m">>,
     <<"c", "o", "n", "t", "a", "c", "t">>,
     <<"e", "m", "a", "i", "l">>,
     <<"p", "h", "o", "n", "e">>,
     <<"c", "o", "m", "p", "a", "n", "y">>,
     <<"c", "a", "l", "l", " ", "m", "e">>,
     <<"r", "e", "a", "c", "h", " ", "m", "e">>,
     <<"i", "n", "f", "o", "r", "m", "a", "t", "i", "o", "n">>,
     <<"d", "e", "t", "a", "i", "l", "s">>}

\* _update_conversation_category: the keywords of each category
CategoryRealEstate ==
    {<<"p", "r", "o", "p", "e", "r", "t", "y">>,
     <<"r", "e", "n", "t">>,
     <<"l", "e", "a", "s", "e">>,
     <<"o", "f", "f", "i", "c", "e">>,
     <<"r", "e", "a", "l", " ", "e", "s", "t", "a", "t", "e">>}
CategoryCrm ==
    {<<"c", "o", "n", "t", "a", "c", "t">>,
     <<"i", "n", "f", "o", "r", "m", "a", "t", "i", "o", "n">>,
     <<"d", "e", "t", "a", "i", "l", "s">>}
CategorySupport ==
    {<<"h", "e", "l", "p">>,
     <<"s", "u", "p", "p", "o", "r", "t">>,
     <<"p", "r", "o", "b", "l", "e", "m">>}

\* The text _generate_response returns when anything in it raises.
FallbackText ==
    <<"I", " ", "a", "p", "o", "l", "o", "g", "i", "z", "e", ",", " ", "b",
      "u", "t", " ", "I", "'", "m", " ", "h", "a", "v", "i", "n", "g", " ",
      "t", "r", "o", "u", "b", "l", "e", " ", "p", "r", "o", "c", "e", "s",
      "s", "i", "n", "g", " ", "y", "o", "u", "r", " ", "r", "e", "q", "u",
      "e", "s", "t", " ", "r", "i", "g", "h", "t", " ", "n", "o", "w", ".",
      " ", "P", "l", "e", "a", "s", "e", " ", "t", "r", "y", " ", "a", "g",
      "a", "i", "n", " ", "l", "a", "t", "e", "r", ".">>

\* What a user sends, and what the provider answers when the call succeeds.
UserMessages ==
    {<<"h", "i">>,
     <<"r", "e", "n", "t">>}
Replies ==
    {<<"o", "k">>}

(***************************************************************************)
(* The profile merge (ChatAgent._update_user_info)                         *)
(***************************************************************************)
ScalarKeys == {"name", "email", "phone", "company", "role"}

\* Bound: how many of the scalar keys one extraction holds.
MaxInfoKeys == 1

\* The values the extraction can give a scalar key: null, "", " ", " B".
ScalarValues == {None, <<>>, <<" ">>, <<" ", "B">>}

\* The value of "preferences" in an extraction: a JSON object over one key,
\* or something that is not an object.
PrefMaps == {<<>>} \cup {[k |-> v] : v \in {"v1", "v2"}}
PrefValues == {[dict |-> TRUE, map |-> m] : m \in PrefMaps} \cup {[dict |-> FALSE]}

\* The value of a key outside the fixed set: falsy or truthy.
OtherValues == {<<>>, <<"x">>}

\* The JSON objects json.loads can return for an extraction.
ScalarInfos ==
    UNION {[K -> ScalarValues] :
              K \in {K \in SUBSET ScalarKeys : Cardinality(K) <= MaxInfoKeys}}
PrefInfos == {<<>>} \cup {[preferences |-> v] : v \in PrefValues}
OtherInfos == {<<>>} \cup {[other |-> v] : v \in OtherValues}
Infos == {a @@ b @@ c : a \in ScalarInfos, b \in PrefInfos, c \in OtherInfos}

\* Python truthiness of a text value or None.
Truthy(v) == v # None /\ v # <<>>

\* if key in info and info[key]: user.<key> = str(info[key]).strip()
\* (.lower() too for email)
MergeScalar(old, info, key) ==
    IF key \in DOMAIN info /\ Truthy(info[key])
    THEN IF key = "email" THEN PyLower(PyStrip(info[key])) ELSE PyStrip(info[key])
    ELSE old

\* The dict user.preferences in memory: made {} when empty, then
\* .update(info["preferences"]) when that is a dict, then every other truthy
\* key.
MergePreferences(old, info) ==
    LET p1 == IF "preferences" \in DOMAIN info /\ info["preferences"].dict
              THEN info["preferences"].map @@ old
              ELSE old
    IN  IF "other" \in DOMAIN info /\ Truthy(info["other"])
        THEN [other |-> info["other"]] @@ p1
        ELSE p1

\* The preferences the commit of _update_user_info stores.  preferences is a
\* plain JSON column: the session records a change of it only when the
\* attribute is assigned, which is done (user.preferences = {}) only when the
\* stored value is empty or NULL.  update() and item assignment on the dict
\* that was loaded are not recorded, and the UPDATE leaves the column out.
PersistedPreferences(old, info) ==
    IF old = <<>> THEN MergePreferences(old, info) ELSE old

\* _update_user_info(user_id, info) for a JSON object info: the users table
\* it commits.
UpdateUserInfo(U, u, info) ==
    IF u \notin DOMAIN U THEN U
    ELSE [U EXCEPT ![u] =
            [name |-> MergeScalar(U[u].name, info, "name"),
             email |-> MergeScalar(U[u].email, info, "email"),
             phone |-> MergeScalar(U[u].phone, info, "phone"),
             company |-> MergeScalar(U[u].company, info, "company"),
             role |-> MergeScalar(U[u].role, info, "role"),
             preferences |-> PersistedPreferences(U[u].preferences, info)]]

\* What the completion of the extraction prompt can be: the call raises, the
\* text is not JSON, it is JSON but not an object (a non-empty list or
\* string, a number other than 0), or it is a JSON object.
ExtractionResults(infos) ==
    {[kind |-> "call_failed"], [kind |-> "not_json"], [kind |-> "not_object"]}
        \cup {[kind |-> "object", info |-> i] : i \in infos}

\* A variant in which the update is stored although its commit failed.
ExtractUserInfo_CommitIgnored(U, u, r, commit_ok) ==
    CASE r.kind \in {"call_failed", "not_json"} -> <<[kind |-> "empty"], U>>
      [] r.kind = "not_object" -> <<[kind |-> "not_object"], U>>
      [] r.kind = "object" ->
            IF r.info = <<>> THEN <<[kind |-> "empty"], U>>
            ELSE <<[kind |-> "object", info |-> r.info],
                   UpdateUserInfo(U, u, r.info)>>

\* _extract_user_info from the completion on: <<returned user_info, users
\* table>>.  commit_ok is whether the commit of _update_user_info goes
\* through; a JSON value that is not an object makes _update_user_info raise
\* inside its own try, which rolls back; both are logged and swallowed there,
\* so the parsed value is still returned.
ExtractUserInfo(U, u, r, commit_ok) ==
    CASE r.kind \in {"call_failed", "not_json"} -> <<[kind |-> "empty"], U>>
      [] r.kind = "not_object" -> <<[kind |-> "not_object"], U>>
      [] r.kind = "object" ->
            IF r.info = <<>> THEN <<[kind |-> "empty"], U>>
            ELSE <<[kind |-> "object", info |-> r.info],
                   IF commit_ok THEN UpdateUserInfo(U, u, r.info) ELSE U>>

ProfileInit ==
    /\ users = [u \in {"u1"} |-> NewUser]
    /\ user_sessions = <<>>
    /\ now = 0
    /\ IndexEmpty
    /\ NoTurns
    /\ ChunkIdle
    /\ last = NoOp

\* One run of _extract_user_info for user u.
MergeExtracted(u, r, commit_ok) ==
    /\ users' = ExtractUserInfo(users, u, r, commit_ok)[2]
    /\ last' = [op |-> "extract_user_info", user |-> u]
    /\ UNCHANGED <<user_sessions, now>>
    /\ UNCHANGED notSessionVars

ProfileNext ==
    \E r \in ExtractionResults(Infos), commit_ok \in BOOLEAN :
        MergeExtracted("u1", r, commit_ok)

SpecProfile == ProfileInit /\ [][ProfileNext]_vars

\* C3: a merge never empties a scalar profile field: one that holds a
\* non-empty value holds a non-empty value after any extraction merge.
C3_MergeNeverEmpties ==
    [][\A u \in DOMAIN users : \A k \in ScalarKeys :
          Truthy(users[u][k]) => Truthy(users'[u][k])]_vars

(***************************************************************************)
(* The chat turn (ChatAgent.process_message, ConversationManager)          *)
(***************************************************************************)
\* Bound: the turns started in one run.
MaxTurns == 2

\* settings.max_conversation_history, settings.max_retrieval_docs, and the
\* windows history[-3:] of _select_agent and history[-10:] of the prompt.
MaxHistory == 50
MaxRetrievalDocs == 5
SelectWindow == 3
PromptWindow == 10

Min(a, b) == IF a <= b THEN a ELSE b

\* The inputs of a turn.
TurnUserIds == {"u1"}
TurnSessionIds == {[kind |-> "client", v |-> 1]}

\* The extractions a turn can get back.
TurnInfos == {<<>>, [name |-> <<"B">>]}

\* A variant of the step sequence that retrieves before it selects.
NextStep_RetrieveFirst(s) ==
    CASE s = "IDENTIFY" -> "PERSIST_INBOUND"
      [] s = "PERSIST_INBOUND" -> "RETRIEVE_CONTEXT"
      [] s = "RETRIEVE_CONTEXT" -> "SELECT_AGENT"
      [] s = "SELECT_AGENT" -> "EXTRACT_PROFILE"
      [] s = "EXTRACT_PROFILE" -> "COMPOSE"
      [] s = "COMPOSE" -> "GENERATE"
      [] s = "GENERATE" -> "PERSIST_OUTBOUND"
      [] s = "PERSIST_OUTBOUND" -> "CLASSIFY"
      [] s = "CLASSIFY" -> "returned"

\* process_message: the step that follows step s.
NextStep(s) ==
    CASE s = "IDENTIFY" -> "PERSIST_INBOUND"
      [] s = "PERSIST_INBOUND" -> "SELECT_AGENT"
      [] s = "SELECT_AGENT" -> "RETRIEVE_CONTEXT"
      [] s = "RETRIEVE_CONTEXT" -> "EXTRACT_PROFILE"
      [] s = "EXTRACT_PROFILE" -> "COMPOSE"
      [] s = "COMPOSE" -> "GENERATE"
      [] s = "GENERATE" -> "PERSIST_OUTBOUND"
      [] s = "PERSIST_OUTBOUND" -> "CLASSIFY"
      [] s = "CLASSIFY" -> "returned"

\* A call of process_message that has not started: its locals.
\* pc is the step about to run; saving tells that save_message has read the
\* conversation and not yet committed; conv is what it read (0: none).
IdleTurn ==
    [pc |-> "idle", saving |-> FALSE, message |-> <<>>, user_id |-> "",
     session_id |-> [kind |-> "none", v |-> 0], conv |-> 0,
     history |-> <<>>, agent |-> "", rag_context |-> <<>>,
     user_info |-> [kind |-> "empty"], extraction |-> "",
     prompt |-> <<>>, response |-> <<>>, sources |-> <<>>,
     generation |-> "", result |-> <<>>, trace |-> <<>>]

\* query(Conversation).filter(session_id == sid, user_id == u).first(): the
\* id it can give (0 for None).  The query has no ORDER BY.
FirstConversation(Cv, sid, u) ==
    LET found == {i \in DOMAIN Cv : Cv[i].session_id = sid /\ Cv[i].user_id = u}
    IN  IF found = {} THEN {0} ELSE found

\* A variant of save_message that never reuses a conversation.
SaveMessage_NewConversation(Cv, M, conv, sid, u, role, content, metadata) ==
    [conversations |-> Append(Cv, [id |-> Len(Cv) + 1, user_id |-> u,
                                   session_id |-> sid, category |-> "general",
                                   status |-> "active"]),
     messages |-> Append(M, [id |-> Len(M) + 1, conversation_id |-> Len(Cv) + 1,
                             role |-> role, content |-> content,
                             metadata |-> metadata])]

\* save_message from its commit on: the conversation is inserted when none
\* was read, and the message is inserted under it.
SaveMessage(Cv, M, conv, sid, u, role, content, metadata) ==
    LET Cv2 == IF conv = 0
               THEN Append(Cv, [id |-> Len(Cv) + 1, user_id |-> u,
                                session_id |-> sid, category |-> "general",
                                status |-> "active"])
               ELSE Cv
        cid == IF conv = 0 THEN Len(Cv) + 1 ELSE conv
    IN  [conversations |-> Cv2,
         messages |-> Append(M, [id |-> Len(M) + 1, conversation_id |-> cid,
                                 role |-> role, content |-> content,
                                 metadata |-> metadata])]

\* reversed(...), and order_by(timestamp.desc()) over rows in the order of
\* their timestamps.
Reverse(s) == [i \in DOMAIN s |-> s[Len(s) + 1 - i]]

\* .limit(n) of a query: its first n rows.
Limit(s, n) == SubSeq(s, 1, Min(Len(s), n))

\* A variant of get_conversation_history that limits the rows in ascending
\* order.
ConversationHistory_Oldest(Cv, M, sid, u, max_history) ==
    {IF c = 0 THEN <<>>
     ELSE LET own == SelectSeq(M, LAMBDA m : m.conversation_id = c)
              recent == Limit(own, max_history)
          IN  [i \in DOMAIN recent |->
                  [role |-> recent[i].role, content |-> recent[i].content]]
     : c \in FirstConversation(Cv, sid, u)}

\* get_conversation_history of a manager whose max_history is given: the
\* histories it can return.  The rows of the conversation are taken newest
\* first, limited, and reversed; a message's timestamp is the time of its
\* insertion, so the table is in ascending order of timestamps.
ConversationHistory(Cv, M, sid, u, max_history) ==
    {IF c = 0 THEN <<>>
     ELSE LET own == SelectSeq(M, LAMBDA m : m.conversation_id = c)
              rows == Limit(Reverse(own), max_history)
              recent == Reverse(rows)
          IN  [i \in DOMAIN recent |->
                  [role |-> recent[i].role, content |-> recent[i].content]]
     : c \in FirstConversation(Cv, sid, u)}

\* get_conversation_history of the manager process_message uses.
GetConversationHistory(Cv, M, sid, u) ==
    ConversationHistory(Cv, M, sid, u, MaxHistory)

\* A variant that looks for the CRM keywords first.
SelectAgent_CrmFirst(message, history) ==
    LET recent == LastN(history, SelectWindow)
        recent_messages == JoinSpace([i \in DOMAIN recent |-> recent[i].content])
    IN  IF AnyIn(CrmKeywords, PyLower(message)) THEN "crm_agent"
        ELSE IF AnyIn(RealEstateKeywords, PyLower(message)) THEN "real_estate_agent"
        ELSE IF history # <<>> /\ AnyIn(RealEstateKeywords, PyLower(recent_messages))
             THEN "real_estate_agent"
        ELSE "general_agent"

\* _select_agent(message, history)
SelectAgent(message, history) ==
    LET recent == LastN(history, SelectWindow)
        recent_messages == JoinSpace([i \in DOMAIN recent |-> recent[i].content])
    IN  IF AnyIn(RealEstateKeywords, PyLower(message)) THEN "real_estate_agent"
        ELSE IF AnyIn(CrmKeywords, PyLower(message)) THEN "crm_agent"
        ELSE IF history # <<>> /\ AnyIn(RealEstateKeywords, PyLower(recent_messages))
             THEN "real_estate_agent"
        ELSE "general_agent"

\* A variant that returns every chunk of the index.
RetrieveDocuments_Unbounded(C, n_results, fails) ==
    IF fails THEN {<<>>}
    ELSE {[i \in DOMAIN C |-> [content |-> C[i].document,
                               filename |-> C[i].filename]]}

\* retrieve_documents(query): the lists it can return.  The order is that of
\* the embedding distances, which the program does not determine; any
\* exception gives [].
RetrieveDocuments(C, n_results, fails) ==
    IF fails THEN {<<>>}
    ELSE LET n == Min(n_results, Len(C))
         IN  {[i \in 1..n |-> [content |-> C[f[i]].document,
                               filename |-> C[f[i]].filename]]
              : f \in {g \in [1..n -> DOMAIN C] :
                          \A i, j \in 1..n : i # j => g[i] # g[j]}}

\* _generate_response: sources, one per retrieved document
SourcesOf(rag_context) ==
    [i \in DOMAIN rag_context |->
        [source |-> rag_context[i].filename, content |-> rag_context[i].content]]

\* _generate_response: the parts of the prompt
ComposePrompt(agent, message, history, rag_context, user_info) ==
    [persona |-> agent, context |-> rag_context, profile |-> user_info,
     history |-> LastN(history, PromptWindow), message |-> message]

\* A variant in which a failure of the provider call is not caught.
GenerateResponse_NoFallback(ok, reply, sources) ==
    IF ok THEN [raised |-> FALSE, response |-> reply, sources |-> sources]
    ELSE [raised |-> TRUE, response |-> <<>>, sources |-> sources]

\* _generate_response from the provider call on: the reply and the sources,
\* or, the except branch catching whatever the call raises, the fallback
\* text and no source.
GenerateResponse(ok, reply, sources) ==
    IF ok THEN [raised |-> FALSE, response |-> reply, sources |-> sources]
    ELSE [raised |-> FALSE, response |-> FallbackText, sources |-> <<>>]

\* A variant that tests the categories in the opposite order.
Classify_SupportFirst(user_message, response) ==
    LET combined_text == PyLower(user_message \o <<" ">> \o response)
    IN  IF AnyIn(CategorySupport, combined_text) THEN "support"
        ELSE IF AnyIn(CategoryCrm, combined_text) THEN "crm"
        ELSE IF AnyIn(CategoryRealEstate, combined_text) THEN "real_estate"
        ELSE "general"

\* _update_conversation_category: the category of an exchange
Classify(user_message, response) ==
    LET combined_text == PyLower(user_message \o <<" ">> \o response)
    IN  IF AnyIn(CategoryRealEstate, combined_text) THEN "real_estate"
        ELSE IF AnyIn(CategoryCrm, combined_text) THEN "crm"
        ELSE IF AnyIn(CategorySupport, combined_text) THEN "support"
        ELSE "general"

\* What became of an extraction: the call or the parse failed, the update
\* of the User failed, nothing was extracted, or the User was updated.
ExtractionOutcome(r, commit_ok) ==
    CASE r.kind = "call_failed" -> "call_failed"
      [] r.kind = "not_json" -> "parse_failed"
      [] r.kind = "not_object" -> "update_failed"
      [] r.kind = "object" ->
            IF r.info = <<>> THEN "nothing"
            ELSE IF commit_ok THEN "updated" ELSE "update_failed"

\* The store after one document has been ingested and before any turn.
TurnStoreInit ==
    /\ StoreEmpty
    /\ ChunkIdle
    /\ LET r == CHOOSE r \in ProcessDocument(<<>>, <<>>, "a.txt", <<"a">>, 1,
                                             chunk_size, overlap, NoFaults) : TRUE
       IN  /\ documents = r.documents
           /\ collection = r.collection
    /\ stamp = 1
    /\ ingested = [f \in Filenames |-> IF f = "a.txt" THEN << <<"a">> >> ELSE <<>>]
    /\ conversations = <<>>
    /\ messages = <<>>
    /\ started = 0
    /\ session_calls = <<>>
    /\ last = NoOp

\* One worker handling the turns one after another.
TurnInit ==
    /\ TurnStoreInit
    /\ turn = [p \in {1} |-> IdleTurn]

\* Step s of turn t is done.
Advance(t, s) == [t EXCEPT !.pc = NextStep(s), !.trace = Append(@, s)]

\* process_message(message, user_id, session_id) is called.
StartTurn(p, msg, u, sid) ==
    /\ turn[p].pc = "idle"
    /\ started < MaxTurns
    /\ started' = started + 1
    /\ turn' = [turn EXCEPT ![p] = [IdleTurn EXCEPT !.pc = "IDENTIFY",
                                       !.message = msg, !.user_id = u,
                                       !.session_id = sid]]
    /\ UNCHANGED <<conversations, messages, users, user_sessions>>
    /\ UNCHANGED notTurnVars

\* IDENTIFY: _ensure_user_exists, _ensure_session_exists
DoIdentify(p) ==
    /\ turn[p].pc = "IDENTIFY"
    /\ users' = EnsureUserExists(users, turn[p].user_id)
    /\ user_sessions' \in EnsureSessionExists(user_sessions, turn[p].user_id,
                                              turn[p].session_id, now)
    /\ turn' = [turn EXCEPT ![p] = Advance(@, "IDENTIFY")]
    /\ UNCHANGED <<conversations, messages, started>>
    /\ UNCHANGED notTurnVars

\* save_message: the query for the conversation
ReadConversation(p, step) ==
    /\ turn[p].pc = step
    /\ ~turn[p].saving
    /\ \E c \in FirstConversation(conversations, turn[p].session_id,
                                  turn[p].user_id) :
        turn' = [turn EXCEPT ![p].saving = TRUE, ![p].conv = c]
    /\ UNCHANGED <<conversations, messages, started, users, user_sessions>>
    /\ UNCHANGED notTurnVars

\* save_message: the inserts and the commit
CommitMessage(p, step, role, content, metadata) ==
    /\ turn[p].pc = step
    /\ turn[p].saving
    /\ LET r == SaveMessage(conversations, messages, turn[p].conv,
                            turn[p].session_id, turn[p].user_id, role,
                            content, metadata)
       IN  /\ conversations' = r.conversations
           /\ messages' = r.messages
    /\ turn' = [turn EXCEPT ![p] = [Advance(@, step) EXCEPT !.saving = FALSE]]
    /\ UNCHANGED <<started, users, user_sessions>>
    /\ UNCHANGED notTurnVars

\* PERSIST_INBOUND: save_message(role="user")
DoPersistInbound(p) == ReadConversation(p, "PERSIST_INBOUND")
DoSaveInbound(p) ==
    CommitMessage(p, "PERSIST_INBOUND", "user", turn[p].message,
                  [kind |-> "none"])

\* SELECT_AGENT: get_conversation_history, _select_agent
DoSelectAgent(p) ==
    /\ turn[p].pc = "SELECT_AGENT"
    /\ \E h \in GetConversationHistory(conversations, messages,
                                       turn[p].session_id, turn[p].user_id) :
        turn' = [turn EXCEPT ![p] =
                    [Advance(@, "SELECT_AGENT") EXCEPT
                        !.history = h,
                        !.agent = SelectAgent(turn[p].message, h)]]
    /\ UNCHANGED <<conversations, messages, started, users, user_sessions>>
    /\ UNCHANGED notTurnVars

\* A variant in which a failure of the index query reaches process_message.
DoRetrieveContext_Propagates(p, fails) ==
    /\ turn[p].pc = "RETRIEVE_CONTEXT"
    /\ \E docs \in RetrieveDocuments(collection, MaxRetrievalDocs, FALSE) :
        turn' = [turn EXCEPT ![p] =
                    IF fails THEN [@ EXCEPT !.pc = "raised"]
                    ELSE [Advance(@, "RETRIEVE_CONTEXT") EXCEPT !.rag_context = docs]]
    /\ UNCHANGED <<conversations, messages, started, users, user_sessions>>
    /\ UNCHANGED notTurnVars

\* RETRIEVE_CONTEXT: rag_service.retrieve_documents(message)
DoRetrieveContext(p, fails) ==
    /\ turn[p].pc = "RETRIEVE_CONTEXT"
    /\ \E docs \in RetrieveDocuments(collection, MaxRetrievalDocs, fails) :
        turn' = [turn EXCEPT ![p] =
                    [Advance(@, "RETRIEVE_CONTEXT") EXCEPT !.rag_context = docs]]
    /\ UNCHANGED <<conversations, messages, started, users, user_sessions>>
    /\ UNCHANGED notTurnVars

\* EXTRACT_PROFILE: _extract_user_info(message, history, user_id)
DoExtractProfile(p, r, commit_ok) ==
    /\ turn[p].pc = "EXTRACT_PROFILE"
    /\ LET x == ExtractUserInfo(users, turn[p].user_id, r, commit_ok)
       IN  /\ users' = x[2]
           /\ turn' = [turn EXCEPT ![p] =
                          [Advance(@, "EXTRACT_PROFILE") EXCEPT
                              !.user_info = x[1],
                              !.extraction = ExtractionOutcome(r, commit_ok)]]
    /\ UNCHANGED <<conversations, messages, started, user_sessions>>
    /\ UNCHANGED notTurnVars

\* COMPOSE: _generate_response up to the provider call
DoCompose(p) ==
    /\ turn[p].pc = "COMPOSE"
    /\ turn' = [turn EXCEPT ![p] =
                  [Advance(@, "COMPOSE") EXCEPT
                      !.sources = SourcesOf(turn[p].rag_context),
                      !.prompt = ComposePrompt(turn[p].agent, turn[p].message,
                                               turn[p].history,
                                               turn[p].rag_context,
                                               turn[p].user_info)]]
    /\ UNCHANGED <<conversations, messages, started, users, user_sessions>>
    /\ UNCHANGED notTurnVars

\* GENERATE: the provider call of _generate_response, and what it returns
DoGenerate(p, ok, reply) ==
    /\ turn[p].pc = "GENERATE"
    /\ LET g == GenerateResponse(ok, reply, turn[p].sources)
       IN  turn' = [turn EXCEPT ![p] =
                      [Advance(@, "GENERATE") EXCEPT
                          !.pc = IF g.raised THEN "raised" ELSE NextStep("GENERATE"),
                          !.response = g.response,
                          !.sources = g.sources,
                          !.generation = IF ok THEN "ok" ELSE "failed"]]
    /\ UNCHANGED <<conversations, messages, started, users, user_sessions>>
    /\ UNCHANGED notTurnVars

\* PERSIST_OUTBOUND: save_message(role="assistant", metadata=...)
DoPersistOutbound(p) == ReadConversation(p, "PERSIST_OUTBOUND")
DoSaveOutbound(p) ==
    CommitMessage(p, "PERSIST_OUTBOUND", "assistant", turn[p].response,
                  [kind |-> "assistant", agent_used |-> turn[p].agent,
                   rag_sources |-> turn[p].sources,
                   user_info_extracted |-> turn[p].user_info])

\* CLASSIFY: _update_conversation_category, whose failure is logged and
\* dropped; then _get_conversation_id and the return of the response.
DoClassify(p, fails) ==
    /\ turn[p].pc = "CLASSIFY"
    /\ \E c \in FirstConversation(conversations, turn[p].session_id,
                                  turn[p].user_id) :
        conversations' =
            IF c = 0 \/ fails THEN conversations
            ELSE [conversations EXCEPT
                     ![c].category = Classify(turn[p].message, turn[p].response)]
    /\ \E c \in FirstConversation(conversations, turn[p].session_id,
                                  turn[p].user_id) :
        turn' = [turn EXCEPT ![p] =
                    [Advance(@, "CLASSIFY") EXCEPT
                        !.result = [response |-> turn[p].response,
                                    sources |-> turn[p].sources,
                                    conversation_id |-> c]]]
    /\ UNCHANGED <<messages, started, users, user_sessions>>
    /\ UNCHANGED notTurnVars

\* The caller has the response; the worker takes the next request.
FinishTurn(p) ==
    /\ turn[p].pc = "returned"
    /\ turn' = [turn EXCEPT ![p] = IdleTurn]
    /\ UNCHANGED <<conversations, messages, started, users, user_sessions>>
    /\ UNCHANGED notTurnVars

TurnNext ==
    \/ \E p \in DOMAIN turn, msg \in UserMessages, u \in TurnUserIds,
          sid \in TurnSessionIds : StartTurn(p, msg, u, sid)
    \/ \E p \in DOMAIN turn : DoIdentify(p)
    \/ \E p \in DOMAIN turn : DoPersistInbound(p)
    \/ \E p \in DOMAIN turn : DoSaveInbound(p)
    \/ \E p \in DOMAIN turn : DoSelectAgent(p)
    \/ \E p \in DOMAIN turn, fails \in BOOLEAN : DoRetrieveContext(p, fails)
    \/ \E p \in DOMAIN turn, r \in ExtractionResults(TurnInfos),
          commit_ok \in BOOLEAN : DoExtractProfile(p, r, commit_ok)
    \/ \E p \in DOMAIN turn : DoCompose(p)
    \/ \E p \in DOMAIN turn, ok \in BOOLEAN, reply \in Replies :
          DoGenerate(p, ok, reply)
    \/ \E p \in DOMAIN turn : DoPersistOutbound(p)
    \/ \E p \in DOMAIN turn : DoSaveOutbound(p)
    \/ \E p \in DOMAIN turn, fails \in BOOLEAN : DoClassify(p, fails)
    \/ \E p \in DOMAIN turn : FinishTurn(p)

SpecTurn == TurnInit /\ [][TurnNext]_vars

\* The order in which process_message runs its steps.
CodeOrder ==
    <<"IDENTIFY", "PERSIST_INBOUND", "SELECT_AGENT", "RETRIEVE_CONTEXT",
      "EXTRACT_PROFILE", "COMPOSE", "GENERATE", "PERSIST_OUTBOUND", "CLASSIFY">>

\* The order with retrieval ahead of agent selection.
RetrieveFirstOrder ==
    <<"IDENTIFY", "PERSIST_INBOUND", "RETRIEVE_CONTEXT", "SELECT_AGENT",
      "EXTRACT_PROFILE", "COMPOSE", "GENERATE", "PERSIST_OUTBOUND", "CLASSIFY">>

IsPrefix(s, t) == Len(s) <= Len(t) /\ s = SubSeq(t, 1, Len(s))

\* Step s of turn t is done.
Done(t, s) == \E i \in DOMAIN t.trace : t.trace[i] = s

\* The messages of the conversations of (u, sid), oldest first.
MessagesOf(u, sid) ==
    SelectSeq(messages,
              LAMBDA m : \E i \in DOMAIN conversations :
                            /\ conversations[i].id = m.conversation_id
                            /\ conversations[i].user_id = u
                            /\ conversations[i].session_id = sid)

\* C7: a turn whose provider call failed in GENERATE never raises; from
\* GENERATE on its response is the fallback text and its source list is
\* empty; and when it returns, the last message stored for its conversation
\* is an assistant message carrying the fallback text, CLASSIFY has run,
\* and the caller gets the fallback text and no source.
C7_GenerateFallback ==
    \A p \in DOMAIN turn :
        turn[p].generation = "failed" =>
            /\ turn[p].pc # "raised"
            /\ turn[p].response = FallbackText
            /\ turn[p].sources = <<>>
            /\ Done(turn[p], "PERSIST_OUTBOUND") =>
                  LET own == MessagesOf(turn[p].user_id, turn[p].session_id)
                  IN  /\ own # <<>>
                      /\ own[Len(own)].role = "assistant"
                      /\ own[Len(own)].content = FallbackText
                      /\ own[Len(own)].metadata.rag_sources = <<>>
            /\ turn[p].pc = "returned" =>
                  /\ Done(turn[p], "PERSIST_OUTBOUND")
                  /\ Done(turn[p], "CLASSIFY")
                  /\ turn[p].result.response = FallbackText
                  /\ turn[p].result.sources = <<>>

\* C7's case: a turn whose provider call failed, after documents had been
\* retrieved for it, has returned.
C7_FailedGenerationReturned ==
    \E p \in DOMAIN turn :
        /\ turn[p].generation = "failed"
        /\ turn[p].rag_context # <<>>
        /\ turn[p].pc = "returned"

ExtractionFailures == {"call_failed", "parse_failed", "update_failed"}

\* C8 as stated: whenever the extraction call, the parsing or the profile
\* update fails, the profile _extract_user_info returns is empty.
C8_FailureYieldsEmptyProfile ==
    \A p \in DOMAIN turn :
        turn[p].extraction \in ExtractionFailures =>
            turn[p].user_info = [kind |-> "empty"]

\* C8, amended: when the extraction call or the parsing of its result fails,
\* _extract_user_info returns an empty profile; when the profile update
\* fails it returns what was extracted; in all three cases it does not
\* raise, the users table is left as it was, and the turn goes on to COMPOSE
\* and, when it returns, has been through GENERATE and PERSIST_OUTBOUND.
C8_ExtractionIsBestEffort ==
    /\ [][\A p \in DOMAIN turn :
            (/\ p \in DOMAIN turn'
             /\ turn[p].pc = "EXTRACT_PROFILE"
             /\ turn'[p].extraction \in ExtractionFailures)
            => /\ users' = users
               /\ turn'[p].pc = "COMPOSE"
               /\ turn'[p].extraction \in {"call_failed", "parse_failed"}
                     => turn'[p].user_info = [kind |-> "empty"]
               /\ turn'[p].extraction = "update_failed"
                     => turn'[p].user_info # [kind |-> "empty"]]_vars
    /\ [](\A p \in DOMAIN turn :
            turn[p].extraction \in ExtractionFailures =>
                /\ turn[p].pc # "raised"
                /\ turn[p].pc = "returned" =>
                      /\ Done(turn[p], "GENERATE")
                      /\ Done(turn[p], "PERSIST_OUTBOUND"))

\* C8's case: a turn in which the profile update failed has returned, the
\* stored user still without a name.
C8_UpdateFailedTurnReturned ==
    \E p \in DOMAIN turn :
        /\ turn[p].extraction = "update_failed"
        /\ turn[p].user_info = [kind |-> "object", info |-> [name |-> <<"B">>]]
        /\ turn[p].pc = "returned"
        /\ users[turn[p].user_id].name = None

RaceWorkers == {1, 2}

RaceInit ==
    /\ TurnStoreInit
    /\ turn = [p \in RaceWorkers |-> IdleTurn]

\* Each worker runs one turn for the same user and session; the steps of the
\* two turns interleave, a save_message being a read and then a commit.
RaceNext ==
    \/ \E p \in DOMAIN turn :
          StartTurn(p, <<"h", "i">>, "u1", [kind |-> "client", v |-> 1])
    \/ \E p \in DOMAIN turn : DoIdentify(p)
    \/ \E p \in DOMAIN turn : DoPersistInbound(p)
    \/ \E p \in DOMAIN turn : DoSaveInbound(p)
    \/ \E p \in DOMAIN turn : DoSelectAgent(p)
    \/ \E p \in DOMAIN turn : DoRetrieveContext(p, FALSE)
    \/ \E p \in DOMAIN turn :
          DoExtractProfile(p, [kind |-> "object", info |-> <<>>], TRUE)
    \/ \E p \in DOMAIN turn : DoCompose(p)
    \/ \E p \in DOMAIN turn, reply \in Replies : DoGenerate(p, TRUE, reply)
    \/ \E p \in DOMAIN turn : DoPersistOutbound(p)
    \/ \E p \in DOMAIN turn : DoSaveOutbound(p)
    \/ \E p \in DOMAIN turn : DoClassify(p, FALSE)

SpecRace == RaceInit /\ [][RaceNext]_vars

\* The Conversation rows of (u, sid).
ConversationsOf(u, sid) ==
    {i \in DOMAIN conversations :
        conversations[i].user_id = u /\ conversations[i].session_id = sid}

\* C10: at most one Conversation row exists for a (user_id, session_id)
\* pair, also after two turns of the pair whose save_message calls
\* interleaved.
C10_OneConversationPerPair ==
    \A u \in TurnUserIds, sid \in TurnSessionIds :
        Cardinality(ConversationsOf(u, sid)) <= 1

(***************************************************************************)
(* Two calls of create_user_session at once                                *)
(***************************************************************************)
SessionWorkers == {1, 2}

\* A worker that is not inside create_user_session.
IdleCall == [pc |-> "idle", user_id |-> "", existing |-> {}]

\* The users exist (a chat turn creates its user before its session); no
\* session yet.
SessionRaceInit ==
    /\ users = [u \in UserIds |-> NewUser]
    /\ user_sessions = <<>>
    /\ now = 0
    /\ IndexEmpty
    /\ conversations = <<>>
    /\ messages = <<>>
    /\ turn = <<>>
    /\ started = 0
    /\ session_calls = [w \in SessionWorkers |-> IdleCall]
    /\ ChunkIdle
    /\ last = NoOp

\* create_user_session(u) up to its commit: the user is found and the
\* query for the user's active sessions has returned.
ReadActiveSessions(w, u) ==
    /\ session_calls[w].pc = "idle"
    /\ u \in DOMAIN users
    /\ Len(user_sessions) < MaxSessions
    /\ session_calls' = [session_calls EXCEPT ![w] =
                            [pc |-> "read", user_id |-> u,
                             existing |-> ActiveSessionsOf(u)]]
    /\ last' = [op |-> "create_user_session:read", user |-> u]
    /\ UNCHANGED <<users, user_sessions, now>>
    /\ UNCHANGED <<chunkVars, ingestVars, turnVars>>

\* create_user_session(u) from its commit on: the sessions it read are made
\* inactive and the new session is inserted.
CommitNewSession(w) ==
    /\ session_calls[w].pc = "read"
    /\ user_sessions' =
          Append([i \in DOMAIN user_sessions |->
                     IF i \in session_calls[w].existing
                     THEN [user_sessions[i] EXCEPT !.is_active = FALSE]
                     ELSE user_sessions[i]],
                 [id |-> Len(user_sessions) + 1,
                  user_id |-> session_calls[w].user_id,
                  session_token |-> Len(user_sessions) + 1,
                  created_at |-> now, expires_at |-> now + ExpiresInHours,
                  is_active |-> TRUE])
    /\ session_calls' = [session_calls EXCEPT ![w] = IdleCall]
    /\ last' = [op |-> "create_user_session", user |-> session_calls[w].user_id]
    /\ UNCHANGED <<users, now>>
    /\ UNCHANGED <<chunkVars, ingestVars, turnVars>>

SessionRaceNext ==
    \/ \E w \in DOMAIN session_calls, u \in UserIds : ReadActiveSessions(w, u)
    \/ \E w \in DOMAIN session_calls : CommitNewSession(w)

SpecSessionRace == SessionRaceInit /\ [][SessionRaceNext]_vars

\* C11: once no call of create_user_session is in progress, every user has
\* at most one active session, also when two calls for the user interleaved
\* between the read of the active sessions and the commit.
C11_SingleActiveSessionAfterRace ==
    (\A w \in DOMAIN session_calls : session_calls[w].pc = "idle")
        => \A u \in UserIds : Cardinality(ActiveSessionsOf(u)) <= 1

(***************************************************************************)
(* Ingestion in which operations can fail                                  *)
(***************************************************************************)
\* process_document(content, f, ...) in which the operations named by faults
\* fail.
IngestDocumentFaulty(f, content, faults) ==
    /\ stamp < MaxIngests
    /\ \E r \in ProcessDocument(documents, collection, f, content, stamp + 1,
                                chunk_size, overlap, faults) :
        /\ documents' = r.documents
        /\ collection' = r.collection
        /\ ingested' = [ingested EXCEPT ![f] =
                           IF r.raised THEN <<>> ELSE LastTwo(Append(@, content))]
        /\ last' = [op |-> "process_document", filename |-> f,
                    add_failed |-> faults.add, raised |-> r.raised]
    /\ stamp' = stamp + 1
    /\ UNCHANGED <<chunk_size, overlap>>
    /\ UNCHANGED notIngestVars

\* remove_document_by_filename(f) in which the operations named by faults
\* fail.
RemoveDocumentFaulty(f, faults) ==
    /\ \E r \in RemoveDocumentByFilename(documents, collection, f, faults) :
        /\ documents' = r.documents
        /\ collection' = r.collection
        /\ last' = [op |-> "remove_document_by_filename", filename |-> f,
                    ret |-> r.ret]
    /\ ingested' = [ingested EXCEPT ![f] = <<>>]
    /\ UNCHANGED <<stamp, chunk_size, overlap>>
    /\ UNCHANGED notIngestVars

\* The failures of one call: a single operation fails, or the relational
\* store is down and both commits fail.
FaultCases ==
    {x \in Faults :
        \/ Cardinality({k \in DOMAIN x : x[k]}) <= 1
        \/ x = [purge |-> FALSE, remove_commit |-> TRUE, add |-> FALSE,
                document_commit |-> TRUE]}

\* The failures remove_document_by_filename can meet.
RemoveFaults == {x \in FaultCases : ~x.add /\ ~x.document_commit}

IngestFaultyNext ==
    \/ \E f \in Filenames, content \in Contents, faults \in FaultCases :
          IngestDocumentFaulty(f, content, faults)
    \/ \E f \in Filenames, faults \in RemoveFaults : RemoveDocumentFaulty(f, faults)
    \/ ClearCollection

SpecIngestFaulty == IngestInit /\ [][IngestFaultyNext]_vars

\* C12: in every reachable state, also after a call in which the commit
\* inside remove_document_by_filename failed, at most one Document row of a
\* filename is active.
C12_UniqueActiveDocument ==
    \A f \in Filenames : Cardinality(ActiveDocuments(documents, f)) <= 1

\* C13: after any sequence of process_document calls, also ones that fail
\* partway, the items of the index with a filename all carry the document
\* id of one single ingestion.
C13_ChunksOfOneIngestion ==
    \A f \in Filenames :
        \A i, j \in DOMAIN ChunksOf(f) :
            ChunksOf(f)[i].id[1] = ChunksOf(f)[j].id[1]

\* C14: a call of process_document in which collection.add fails raises,
\* and inserts no Document row: the table has the rows it had, changed at
\* most in is_active by the removal that precedes the insertion.
C14_AddFailureAborts ==
    [][(stamp' # stamp /\ last'.add_failed)
          => /\ last'.raised
             /\ Len(documents') = Len(documents)
             /\ \A i \in DOMAIN documents :
                   /\ documents'[i].id = documents[i].id
                   /\ documents'[i].filename = documents[i].filename
                   /\ documents'[i].content = documents[i].content]_vars

\* C14's case: a re-ingestion of a stored document failed at collection.add
\* and raised.
C14_AddFailedOnReingest ==
    /\ last.op = "process_document"
    /\ last.add_failed
    /\ last.raised
    /\ \E i \in DOMAIN documents : documents[i].filename = last.filename

(***************************************************************************)
(* Batch ingestion (DataManager.load_data_files, load_initial_data,        *)
(* upload_documents)                                                       *)
(***************************************************************************)
\* Bound: the files of one batch.
MaxBatch == 3

\* The files a batch is made of: two text files and a JSON file that parses
\* or does not.
BatchFiles ==
    {[filename |-> "a.txt", kind |-> "txt", content |-> <<"a">>],
     [filename |-> "b.txt", kind |-> "txt", content |-> <<"a">>],
     [filename |-> "c.json", kind |-> "json", content |-> <<"a">>],
     [filename |-> "c.json", kind |-> "bad_json", content |-> <<"a">>]}

\* The batches: files of different names, in any order.
Batches ==
    {b \in SeqUpTo(BatchFiles, MaxBatch) :
        /\ b # <<>>
        /\ \A i, j \in DOMAIN b : i # j => b[i].filename # b[j].filename}

\* _json_to_readable_text(json_data, filename): a heading line and the
\* formatted values.
JsonToReadableText(content) == <<"D", ":">> \o content

\* The text handed to process_document for a file that can be read.
TextOf(file) ==
    IF file.kind = "json" THEN JsonToReadableText(file.content) ELSE file.content

\* The loop of load_data_files and of load_initial_data over the files: the
\* outcomes it can end with.  A file whose JSON does not parse is recorded
\* (errors.append there, a warning here) and the loop goes on.
RECURSIVE LoadFiles(_, _, _, _)
LoadFiles(files, st, cs, ov) ==
    IF files = <<>> THEN {st}
    ELSE LET file == Head(files)
         IN  IF file.kind = "bad_json"
             THEN LoadFiles(Tail(files),
                            [st EXCEPT !.errors = Append(@, file.filename)],
                            cs, ov)
             ELSE UNION {LoadFiles(Tail(files),
                                   [st EXCEPT !.documents = r.documents,
                                              !.collection = r.collection,
                                              !.stamp = @ + 1,
                                              !.loaded = Append(@, file.filename)],
                                   cs, ov)
                         : r \in ProcessDocument(st.documents, st.collection,
                                                 file.filename, TextOf(file),
                                                 st.stamp + 1, cs, ov, NoFaults)}

\* The loop of upload_documents over the files: a file whose JSON does not
\* parse raises HTTPException out of the loop, which ends the request.
RECURSIVE UploadFiles(_, _, _, _)
UploadFiles(files, st, cs, ov) ==
    IF files = <<>> THEN {st}
    ELSE LET file == Head(files)
         IN  IF file.kind = "bad_json"
             THEN {[st EXCEPT !.errors = Append(@, file.filename),
                              !.aborted = TRUE]}
             ELSE UNION {UploadFiles(Tail(files),
                                     [st EXCEPT !.documents = r.documents,
                                                !.collection = r.collection,
                                                !.stamp = @ + 1,
                                                !.loaded = Append(@, file.filename)],
                                     cs, ov)
                         : r \in ProcessDocument(st.documents, st.collection,
                                                 file.filename, TextOf(file),
                                                 st.stamp + 1, cs, ov, NoFaults)}

\* The store as a batch finds it.
BatchStart ==
    [documents |-> documents, collection |-> collection, stamp |-> stamp,
     loaded |-> <<>>, errors |-> <<>>, aborted |-> FALSE]

\* get_collection_stats()["total_documents"]
TotalDocuments == Cardinality({i \in DOMAIN documents : documents[i].is_active})

\* A batch has run and ended in st.
BatchDone(op, batch, st) ==
    /\ documents' = st.documents
    /\ collection' = st.collection
    /\ stamp' = st.stamp
    /\ last' = [op |-> op, batch |-> batch, skipped |-> FALSE,
                loaded |-> st.loaded, errors |-> st.errors,
                aborted |-> st.aborted]
    /\ UNCHANGED <<ingested, chunk_size, overlap>>
    /\ UNCHANGED notIngestVars

\* A batch found data already loaded and did nothing.
BatchSkipped(op, batch) ==
    /\ last' = [op |-> op, batch |-> batch, skipped |-> TRUE,
                loaded |-> <<>>, errors |-> <<>>, aborted |-> FALSE]
    /\ UNCHANGED <<documents, collection, stamp, ingested, chunk_size, overlap>>
    /\ UNCHANGED notIngestVars

\* DataManager.load_data_files(force) with the data directory holding batch
LoadDataFiles(batch, force) ==
    /\ stamp < MaxIngests
    /\ IF ~force /\ TotalDocuments > 0
       THEN BatchSkipped("load_data_files", batch)
       ELSE \E st \in LoadFiles(batch, BatchStart, chunk_size, overlap) :
                BatchDone("load_data_files", batch, st)

\* load_initial_data() with the data directory holding batch
LoadInitialData(batch) ==
    /\ stamp < MaxIngests
    /\ IF TotalDocuments > 0
       THEN BatchSkipped("load_initial_data", batch)
       ELSE \E st \in LoadFiles(batch, BatchStart, chunk_size, overlap) :
                BatchDone("load_initial_data", batch, st)

\* POST /upload_docs with the files of batch
UploadDocuments(batch) ==
    /\ stamp < MaxIngests
    /\ \E st \in UploadFiles(batch, BatchStart, chunk_size, overlap) :
          BatchDone("upload_documents", batch, st)

BatchNext ==
    \/ \E batch \in Batches, force \in BOOLEAN : LoadDataFiles(batch, force)
    \/ \E batch \in Batches : LoadInitialData(batch)
    \/ \E batch \in Batches : UploadDocuments(batch)

SpecBatch == IngestInit /\ [][BatchNext]_vars

BatchOps == {"load_data_files", "load_initial_data", "upload_documents"}

\* C15: after a batch that was not skipped as already loaded, every file of
\* the batch whose JSON does not parse is reported, and every other file of
\* the batch, before and after it, is ingested: an active Document of its
\* name holds its text.
C15_BatchIsolatesMalformedFile ==
    (last.op \in BatchOps /\ ~last.skipped) =>
        \A i \in DOMAIN last.batch :
            IF last.batch[i].kind = "bad_json"
            THEN \E k \in DOMAIN last.errors :
                    last.errors[k] = last.batch[i].filename
            ELSE \E d \in ActiveDocuments(documents, last.batch[i].filename) :
                    documents[d].content = TextOf(last.batch[i])

(***************************************************************************)
(* Expired sessions                                                        *)
(***************************************************************************)
\* The rows the clock has passed the expires_at of.
ExpiredRows ==
    {i \in DOMAIN user_sessions : now > user_sessions[i].expires_at}

\* C16: once the clock has passed a session's expires_at, validate_session
\* and get_user_session return None for its token and
\* get_user_sessions(active_only=True) of its user omits it, whether or not
\* its is_active flag is still set.
C16_ExpiredSessionRejected ==
    \A i \in ExpiredRows :
        LET tok == user_sessions[i].session_token
        IN  /\ ValidateSession(user_sessions, users, tok, now) = None
            /\ GetUserSession(user_sessions, tok, now) = None
            /\ i \notin GetUserSessions(user_sessions, user_sessions[i].user_id,
                                        TRUE, now)
            /\ (last.op = "validate_session" /\ last.token = tok) =>
                    (last.user = None /\ last.session = None)

\* C16's case: validate_session was called with the token of a session that
\* is past its expires_at and still has is_active set.
C16_ExpiredStillActiveLookedUp ==
    \E i \in ExpiredRows :
        /\ user_sessions[i].is_active
        /\ last.op = "validate_session"
        /\ last.token = user_sessions[i].session_token

(***************************************************************************)
(* Chat turns in which the relational store can fail (chat,                *)
(* ChatAgent.process_message)                                              *)
(***************************************************************************)
\* What a turn can write to.
Store ==
    [users |-> users, user_sessions |-> user_sessions,
     conversations |-> conversations, messages |-> messages]

\* POST /chat: chat() calls process_message(message, user_id, session_id).
\* last keeps the store as the request found it.
ChatRequest(p, msg, u, sid) ==
    /\ turn[p].pc = "idle"
    /\ started < MaxTurns
    /\ started' = started + 1
    /\ turn' = [turn EXCEPT ![p] = [IdleTurn EXCEPT !.pc = "IDENTIFY",
                                       !.message = msg, !.user_id = u,
                                       !.session_id = sid]]
    /\ last' = [op |-> "chat", store |-> Store]
    /\ UNCHANGED <<conversations, messages, users, user_sessions>>
    /\ UNCHANGED <<chunkVars, ingestVars, now, session_calls>>

\* IDENTIFY: the commit of _ensure_user_exists fails; it rolls back and
\* raises, and process_message raises.
EnsureUserFails(p) ==
    /\ turn[p].pc = "IDENTIFY"
    /\ turn[p].user_id \notin DOMAIN users
    /\ turn' = [turn EXCEPT ![p].pc = "raised"]
    /\ UNCHANGED <<conversations, messages, started, users, user_sessions>>
    /\ UNCHANGED notTurnVars

\* save_message: the commit fails; get_db_context rolls back, save_message
\* raises and process_message raises.
SaveMessageFails(p) ==
    /\ turn[p].pc \in {"PERSIST_INBOUND", "PERSIST_OUTBOUND"}
    /\ turn[p].saving
    /\ turn' = [turn EXCEPT ![p].pc = "raised", ![p].saving = FALSE]
    /\ UNCHANGED <<conversations, messages, started, users, user_sessions>>
    /\ UNCHANGED notTurnVars

\* chat(): the exception of process_message becomes HTTPException(500); the
\* worker takes the next request.
ChatFails(p) ==
    /\ turn[p].pc = "raised"
    /\ turn' = [turn EXCEPT ![p] = IdleTurn]
    /\ UNCHANGED <<conversations, messages, started, users, user_sessions>>
    /\ UNCHANGED notTurnVars

TurnFaultyNext ==
    \/ \E p \in DOMAIN turn, msg \in UserMessages, u \in TurnUserIds,
          sid \in TurnSessionIds : ChatRequest(p, msg, u, sid)
    \/ \E p \in DOMAIN turn : DoIdentify(p)
    \/ \E p \in DOMAIN turn : EnsureUserFails(p)
    \/ \E p \in DOMAIN turn : DoPersistInbound(p)
    \/ \E p \in DOMAIN turn : DoSaveInbound(p)
    \/ \E p \in DOMAIN turn : SaveMessageFails(p)
    \/ \E p \in DOMAIN turn : DoSelectAgent(p)
    \/ \E p \in DOMAIN turn : DoRetrieveContext(p, FALSE)
    \/ \E p \in DOMAIN turn, r \in ExtractionResults(TurnInfos) :
          DoExtractProfile(p, r, TRUE)
    \/ \E p \in DOMAIN turn : DoCompose(p)
    \/ \E p \in DOMAIN turn, ok \in BOOLEAN, reply \in Replies :
          DoGenerate(p, ok, reply)
    \/ \E p \in DOMAIN turn : DoPersistOutbound(p)
    \/ \E p \in DOMAIN turn : DoSaveOutbound(p)
    \/ \E p \in DOMAIN turn : DoClassify(p, FALSE)
    \/ \E p \in DOMAIN turn : FinishTurn(p)
    \/ \E p \in DOMAIN turn : ChatFails(p)

SpecTurnFaulty == TurnInit /\ [][TurnFaultyNext]_vars

\* C17: a turn that ends in a failure, with no response body, has written
\* nothing: users, user sessions, conversations and messages are as the
\* request found them.
C17_FailedTurnWroteNothing ==
    \A p \in DOMAIN turn :
        turn[p].pc = "raised" => (last.op = "chat" /\ Store = last.store)

(***************************************************************************)
(* Agent selection (ChatAgent._select_agent)                               *)
(***************************************************************************)
\* Bound: the entries of a history handed to _select_agent.
MaxSelectHistory == 4

\* The messages and the contents of history entries: without a keyword, with
\* a keyword of one list, of both, in capitals, and two halves of the
\* keyword "square feet".
SelectMessages ==
    {<<"h", "i">>,
     <<"r", "e", "n", "t">>,
     <<"R", "E", "N", "T">>,
     <<"e", "m", "a", "i", "l">>,
     <<"E", "m", "a", "i", "l">>,
     <<"r", "e", "n", "t", " ", "e", "m", "a", "i", "l">>}
SelectContents ==
    {<<"h", "i">>,
     <<"L", "e", "a", "s", "e">>,
     <<"s", "q", "u", "a", "r", "e">>,
     <<"f", "e", "e", "t">>,
     <<"e", "m", "a", "i", "l">>}
SelectHistories ==
    SeqUpTo({[role |-> "user", content |-> c] : c \in SelectContents},
            MaxSelectHistory)

\* A call _select_agent(message, history) about to run.
SelectInit ==
    /\ TurnStoreInit
    /\ \E m \in SelectMessages, h \in SelectHistories :
          turn = [p \in {1} |-> [IdleTurn EXCEPT !.pc = "SELECT_AGENT",
                                    !.message = m, !.history = h]]

\* _select_agent(message, history) returns.
SelectAgentCall(p) ==
    /\ turn[p].pc = "SELECT_AGENT"
    /\ turn' = [turn EXCEPT ![p].pc = "selected",
                            ![p].agent = SelectAgent(turn[p].message,
                                                     turn[p].history)]
    /\ UNCHANGED <<conversations, messages, started, users, user_sessions>>
    /\ UNCHANGED notTurnVars

SelectNext == \E p \in DOMAIN turn : SelectAgentCall(p)

SpecSelect == SelectInit /\ [][SelectNext]_vars

\* The contents of the last three entries of a history, joined by spaces and
\* lower-cased.
RecentText(history) ==
    PyLower(JoinSpace([i \in 1..Min(3, Len(history)) |->
                          history[Len(history) - Min(3, Len(history)) + i].content]))

\* C18: _select_agent(message, history) returns the real-estate agent when
\* the lower-cased message contains a domain keyword, whatever else it
\* contains; otherwise the CRM agent when it contains a profile keyword;
\* otherwise the real-estate agent when the joined last three history entries
\* contain a domain keyword; otherwise the general agent.  The result is one
\* of the three agents.
C18_SelectionPriority ==
    \A p \in DOMAIN turn :
        turn[p].pc = "selected" =>
            LET m == PyLower(turn[p].message)
                domain == \E kw \in RealEstateKeywords : Contains(m, kw)
                profile == \E kw \in CrmKeywords : Contains(m, kw)
                earlier == \E kw \in RealEstateKeywords :
                              Contains(RecentText(turn[p].history), kw)
            IN  /\ turn[p].agent \in {"real_estate_agent", "crm_agent",
                                       "general_agent"}
                /\ domain => turn[p].agent = "real_estate_agent"
                /\ (~domain /\ profile) => turn[p].agent = "crm_agent"
                /\ (~domain /\ ~profile /\ earlier) =>
                        turn[p].agent = "real_estate_agent"
                /\ (~domain /\ ~profile /\ ~earlier) =>
                        turn[p].agent = "general_agent"

\* C18's case: a message with a domain keyword and a profile keyword got the
\* real-estate agent.
C18_BothKeywordsSelected ==
    \E p \in DOMAIN turn :
        /\ turn[p].pc = "selected"
        /\ AnyIn(RealEstateKeywords, PyLower(turn[p].message))
        /\ AnyIn(CrmKeywords, PyLower(turn[p].message))
        /\ turn[p].agent = "real_estate_agent"

(***************************************************************************)
(* Retrieval (RAGService.retrieve_documents)                               *)
(***************************************************************************)
\* The n_results a caller passes: a number, or nothing.
RetrieveArgs ==
    {[given |-> TRUE, k |-> 0], [given |-> TRUE, k |-> 1],
     [given |-> TRUE, k |-> 2], [given |-> FALSE, k |-> 0]}

\* if n_results is None: n_results = settings.max_retrieval_docs
NResults(arg) == IF arg.given THEN arg.k ELSE MaxRetrievalDocs

\* retrieve_documents(query, n_results) is called; it changes nothing.
RetrieveCall(arg, fails) ==
    /\ \E docs \in RetrieveDocuments(collection, NResults(arg), fails) :
          last' = [op |-> "retrieve_documents", n_results |-> NResults(arg),
                   failed |-> fails, found |-> Len(docs),
                   filenames |-> {docs[i].filename : i \in DOMAIN docs}]
    /\ UNCHANGED <<ingestVars, chunk_size, overlap>>
    /\ UNCHANGED notIngestVars

RetrieveNext ==
    \/ \E f \in Filenames, content \in Contents : IngestDocument(f, content)
    \/ \E f \in Filenames : RemoveDocument(f)
    \/ ClearCollection
    \/ \E arg \in RetrieveArgs, fails \in BOOLEAN : RetrieveCall(arg, fails)

SpecRetrieve == IngestInit /\ [][RetrieveNext]_vars

DialogSessionIds == {[kind |-> "client", v |-> 1], [kind |-> "client", v |-> 2]}

\* One worker handling the turns of the two sessions one after another; no
\* operation of the store fails.
DialogNext ==
    \/ \E p \in DOMAIN turn, msg \in UserMessages, u \in TurnUserIds,
          sid \in DialogSessionIds : ChatRequest(p, msg, u, sid)
    \/ \E p \in DOMAIN turn : DoIdentify(p)
    \/ \E p \in DOMAIN turn : DoPersistInbound(p)
    \/ \E p \in DOMAIN turn : DoSaveInbound(p)
    \/ \E p \in DOMAIN turn : DoSelectAgent(p)
    \/ \E p \in DOMAIN turn : DoRetrieveContext(p, FALSE)
    \/ \E p \in DOMAIN turn, r \in ExtractionResults(TurnInfos) :
          DoExtractProfile(p, r, TRUE)
    \/ \E p \in DOMAIN turn : DoCompose(p)
    \/ \E p \in DOMAIN turn, ok \in BOOLEAN, reply \in Replies :
          DoGenerate(p, ok, reply)
    \/ \E p \in DOMAIN turn : DoPersistOutbound(p)
    \/ \E p \in DOMAIN turn : DoSaveOutbound(p)
    \/ \E p \in DOMAIN turn : DoClassify(p, FALSE)
    \/ \E p \in DOMAIN turn : FinishTurn(p)

SpecDialog == TurnInit /\ [][DialogNext]_vars

\* The conversations of (u, sid) in a table of conversations.
ConversationsIn(Cv, u, sid) ==
    {i \in DOMAIN Cv : Cv[i].user_id = u /\ Cv[i].session_id = sid}

\* The turn of worker p has returned having appended exactly the user
\* message and then the assistant response to the one conversation of its
\* pair, which is the one the request found or, when it found none, a new one.
TurnAppendedTwo(p) ==
    LET u == turn[p].user_id
        sid == turn[p].session_id
        before == last.store
        old == ConversationsIn(before.conversations, u, sid)
        n == Len(before.messages)
    IN  /\ last.op = "chat"
        /\ Cardinality(ConversationsOf(u, sid)) = 1
        /\ old # {} => (ConversationsOf(u, sid) = old
                        /\ Len(conversations) = Len(before.conversations))
        /\ old = {} => Len(conversations) = Len(before.conversations) + 1
        /\ Len(messages) = n + 2
        /\ SubSeq(messages, 1, n) = before.messages
        /\ messages[n + 1].role = "user"
        /\ messages[n + 1].content = turn[p].message
        /\ messages[n + 2].role = "assistant"
        /\ messages[n + 2].content = turn[p].response
        /\ \A k \in {n + 1, n + 2} :
              \A c \in ConversationsOf(u, sid) :
                  messages[k].conversation_id = conversations[c].id

\* The messages of (u, sid) alternate user, assistant, starting with user.
Alternates(u, sid) ==
    LET own == MessagesOf(u, sid)
    IN  \A i \in DOMAIN own :
            own[i].role = IF i % 2 = 1 THEN "user" ELSE "assistant"

\* C20: every completed turn of a sequence of turns has appended exactly two
\* messages, the user message and then the assistant response, to the single
\* conversation of its (user_id, session_id), created by the first turn of the
\* session and reused afterwards; once n turns have completed the
\* conversations hold 2n messages, alternating user and assistant in each.
C20_TwoMessagesPerTurn ==
    /\ \A p \in DOMAIN turn : turn[p].pc = "returned" => TurnAppendedTwo(p)
    /\ (\A p \in DOMAIN turn : turn[p].pc \in {"idle", "returned"}) =>
          /\ Len(messages) = 2 * started
          /\ \A u \in TurnUserIds, sid \in DialogSessionIds :
                /\ Cardinality(ConversationsOf(u, sid)) <= 1
                /\ Len(MessagesOf(u, sid)) % 2 = 0
                /\ Alternates(u, sid)

\* C20's case: a turn has returned in a session that had a conversation
\* with messages already.
C20_LaterTurnReturned ==
    \E p \in DOMAIN turn :
        /\ turn[p].pc = "returned"
        /\ last.op = "chat"
        /\ ConversationsIn(last.store.conversations, turn[p].user_id,
                           turn[p].session_id) # {}
        /\ Len(MessagesOf(turn[p].user_id, turn[p].session_id)) = 4

(***************************************************************************)
(* The messages a turn leaves behind                                       *)
(***************************************************************************)
\* The messages stored under conversation id c, oldest first.
MessagesIn(c) == SelectSeq(messages, LAMBDA m : m.conversation_id = c)

\* How many of the first k messages of own have this role.
CountRole(own, k, role) ==
    Cardinality({i \in 1..k : own[i].role = role})

C22_RepeatedTurnAddsNoSession ==
    [][(/\ last.op = "identify"
        /\ last'.op = "identify"
        /\ last'.user = last.user
        /\ last'.session_id = last.session_id)
       => (/\ Len(user_sessions') = Len(user_sessions)
           /\ Cardinality({i \in DOMAIN user_sessions' :
                             /\ user_sessions'[i].user_id = last.user
                             /\ user_sessions'[i].is_active}) = 1)]_vars

(***************************************************************************)
(* Expired sessions stay expired                                           *)
(***************************************************************************)
\* C23: a token that validate_session rejects because the clock has passed
\* the session's expires_at is not accepted by validate_session after any
\* further operation.
C23_NoRevivalOfExpired ==
    [][\A i \in DOMAIN user_sessions :
          (/\ now > user_sessions[i].expires_at
           /\ ValidateSession(user_sessions, users,
                              user_sessions[i].session_token, now) = None)
          => ValidateSession(user_sessions', users',
                             user_sessions[i].session_token, now') = None]_vars

(***************************************************************************)
(* The category of a conversation (ChatAgent._update_conversation_category)*)
(***************************************************************************)
\* The user messages and the replies of the turns: without a keyword, with a
\* keyword of one category, of two, and the two halves of "real estate".
CategoryMessages ==
    {<<"h", "i">>,
     <<"R", "e", "n", "t">>,
     <<"h", "e", "l", "p">>,
     <<"d", "e", "t", "a", "i", "l", "s">>,
     <<"r", "e", "n", "t", " ", "h", "e", "l", "p">>,
     <<"h", "e", "l", "p", " ", "d", "e", "t", "a", "i", "l", "s">>,
     <<"r", "e", "a", "l">>}
CategoryReplies ==
    {<<"o", "k">>,
     <<"e", "s", "t", "a", "t", "e">>}

\* One worker handling the turns of a session one after another; no
\* operation of the store fails.
CategoryNext ==
    \/ \E p \in DOMAIN turn, msg \in CategoryMessages, u \in TurnUserIds,
          sid \in TurnSessionIds : ChatRequest(p, msg, u, sid)
    \/ \E p \in DOMAIN turn : DoIdentify(p)
    \/ \E p \in DOMAIN turn : DoPersistInbound(p)
    \/ \E p \in DOMAIN turn : DoSaveInbound(p)
    \/ \E p \in DOMAIN turn : DoSelectAgent(p)
    \/ \E p \in DOMAIN turn : DoRetrieveContext(p, FALSE)
    \/ \E p \in DOMAIN turn :
          DoExtractProfile(p, [kind |-> "object", info |-> <<>>], TRUE)
    \/ \E p \in DOMAIN turn : DoCompose(p)
    \/ \E p \in DOMAIN turn, ok \in BOOLEAN, reply \in CategoryReplies :
          DoGenerate(p, ok, reply)
    \/ \E p \in DOMAIN turn : DoPersistOutbound(p)
    \/ \E p \in DOMAIN turn : DoSaveOutbound(p)
    \/ \E p \in DOMAIN turn : DoClassify(p, FALSE)
    \/ \E p \in DOMAIN turn : FinishTurn(p)

SpecCategory == TurnInit /\ [][CategoryNext]_vars

\* C24: when a turn has completed, the category of its conversation is the
\* classification of that turn's user message joined with its response and
\* of nothing else: real_estate if the lower-cased text contains a
\* real-estate keyword, else crm if it contains a CRM keyword, else support
\* if it contains a support keyword, else general.
C24_LastTurnWins ==
    \A p \in DOMAIN turn :
        turn[p].pc = "returned" =>
            LET exchange == PyLower(turn[p].message \o <<" ">> \o turn[p].response)
                has(keywords) == \E kw \in keywords : Contains(exchange, kw)
            IN  \A c \in ConversationsOf(turn[p].user_id, turn[p].session_id) :
                    /\ has(CategoryRealEstate) =>
                            conversations[c].category = "real_estate"
                    /\ (~has(CategoryRealEstate) /\ has(CategoryCrm)) =>
                            conversations[c].category = "crm"
                    /\ (~has(CategoryRealEstate) /\ ~has(CategoryCrm)
                            /\ has(CategorySupport)) =>
                            conversations[c].category = "support"
                    /\ (~has(CategoryRealEstate) /\ ~has(CategoryCrm)
                            /\ ~has(CategorySupport)) =>
                            conversations[c].category = "general"

\* C24's case: a turn without a keyword has completed in a conversation that
\* the turn before it had left as real_estate, and the category is general.
C24_RealEstateBecameGeneral ==
    \E p \in DOMAIN turn :
        /\ turn[p].pc = "returned"
        /\ last.op = "chat"
        /\ \E c \in ConversationsOf(turn[p].user_id, turn[p].session_id) :
              /\ c \in DOMAIN last.store.conversations
              /\ last.store.conversations[c].category = "real_estate"
              /\ conversations[c].category = "general"

(***************************************************************************)
(* A failing index query inside a turn                                     *)
(***************************************************************************)
\* The turn of worker p has retrieved nothing although the index holds
\* chunks: its query failed.
RetrievalFailed(p) ==
    /\ Done(turn[p], "RETRIEVE_CONTEXT")
    /\ turn[p].rag_context = <<>>
    /\ collection # <<>>

\* C25: a turn never raises at the retrieval step; a turn whose index query
\* failed goes on with an empty context, and when it returns it has stored
\* its assistant message and hands back a response with no source.
C25_RetrievalNeverRaises ==
    \A p \in DOMAIN turn :
        /\ ~(/\ turn[p].pc = "raised"
             /\ turn[p].trace # <<>>
             /\ turn[p].trace[Len(turn[p].trace)] = "SELECT_AGENT")
        /\ RetrievalFailed(p) =>
              /\ turn[p].pc # "raised"
              /\ turn[p].sources = <<>>
              /\ turn[p].pc = "returned" =>
                    /\ turn[p].result.sources = <<>>
                    /\ turn[p].result.response = turn[p].response
                    /\ LET own == MessagesOf(turn[p].user_id, turn[p].session_id)
                       IN  /\ own # <<>>
                           /\ own[Len(own)].role = "assistant"
                           /\ own[Len(own)].content = turn[p].response

\* C25's case: a turn whose index query failed has returned.
C25_FailedRetrievalReturned ==
    \E p \in DOMAIN turn :
        /\ RetrievalFailed(p)
        /\ turn[p].generation = "ok"
        /\ turn[p].pc = "returned"

(***************************************************************************)
(* What a removal leaves alone                                             *)
(***************************************************************************)
\* Removals in which nothing fails, from whatever ingestions with failing
\* operations have left.
RemoveNext ==
    \/ \E f \in Filenames, content \in Contents, faults \in FaultCases :
          IngestDocumentFaulty(f, content, faults)
    \/ \E f \in Filenames : RemoveDocument(f)
    \/ ClearCollection

SpecRemove == IngestInit /\ [][RemoveNext]_vars

\* C26: remove_document_by_filename(f), no operation of it failing: with an
\* active Document named f it makes that row inactive and changes no other
\* row, deletes from the index the chunks whose filename is f and keeps the
\* others as they are, and returns True; with no active Document named f it
\* returns False and changes neither the index nor the documents.
C26_RemovalFrame ==
    [][last'.op = "remove_document_by_filename" =>
        LET f == last'.filename
            active == ActiveDocuments(documents, f)
            rets == {r.ret : r \in RemoveDocumentByFilename(documents, collection,
                                                            f, NoFaults)}
        IN  IF active # {}
            THEN /\ rets = {TRUE}
                 /\ Len(documents') = Len(documents)
                 /\ \E i \in active :
                       /\ ~documents'[i].is_active
                       /\ \A j \in DOMAIN documents :
                             j # i => documents'[j] = documents[j]
                 /\ \A k \in DOMAIN collection' : collection'[k].filename # f
                 /\ collection' = SelectSeq(collection, LAMBDA c : c.filename # f)
            ELSE /\ rets = {FALSE}
                 /\ documents' = documents
                 /\ collection' = collection]_vars

\* C26's case: a document was just removed while another file's document
\* and chunks were stored.
C26_RemovedBesideOtherFile ==
    /\ last.op = "remove_document_by_filename"
    /\ \E i \in DOMAIN documents :
          documents[i].filename = last.filename /\ ~documents[i].is_active
    /\ ActiveDocuments(documents, last.filename) = {}
    /\ \E g \in Filenames :
          /\ g # last.filename
          /\ ActiveDocuments(documents, g) # {}
          /\ ChunksOf(g) # <<>>

(***************************************************************************)
(* The merge of extracted preferences                                      *)
(***************************************************************************)
\* C27: a committed merge of an extracted profile leaves every key of the
\* extracted preferences with the extracted value, leaves every stored
\* preference that the extraction does not name with its value, and stores
\* under preferences every extracted key outside the fixed fields whose
\* value is not empty.
C27_PreferencesMergedKeyByKey ==
    \A u \in DOMAIN users : \A info \in Infos :
        LET old == users[u].preferences
            new == UpdateUserInfo(users, u, info)[u].preferences
            extracted == IF "preferences" \in DOMAIN info /\ info["preferences"].dict
                         THEN info["preferences"].map ELSE <<>>
            other == IF "other" \in DOMAIN info /\ Truthy(info["other"])
                     THEN {"other"} ELSE {}
        IN  /\ \A k \in DOMAIN extracted \ other :
                  k \in DOMAIN new /\ new[k] = extracted[k]
            /\ \A k \in DOMAIN old \ (DOMAIN extracted \cup other) :
                  k \in DOMAIN new /\ new[k] = old[k]
            /\ \A k \in other : k \in DOMAIN new /\ new[k] = info[k]

(***************************************************************************)
(* Clearing a user's conversations (CRMService.clear_user_conversations)   *)
(***************************************************************************)
\* The tables are sequences of row slots, the slot number being the row's
\* id; a deleted row leaves its slot empty, and ids are not used again.
DeletedConversation(i) ==
    [id |-> i, user_id |-> "", session_id |-> [kind |-> "none", v |-> 0],
     category |-> "", status |-> "deleted"]
DeletedMessage(j) ==
    [id |-> j, conversation_id |-> 0, role |-> "", content |-> <<>>,
     metadata |-> [kind |-> "none"]]

\* The rows that exist.
LiveConversation(Cv, i) == i \in DOMAIN Cv /\ Cv[i].status # "deleted"
LiveMessage(M, j) == j \in DOMAIN M /\ M[j].role # ""

\* clear_user_conversations(user_id): the tables it commits.  The messages
\* of each conversation of the user are deleted, then the conversation.
ClearUserConversationsRows(Cv, M, u) ==
    LET gone == {i \in DOMAIN Cv : LiveConversation(Cv, i) /\ Cv[i].user_id = u}
    IN  [conversations |->
             [i \in DOMAIN Cv |-> IF i \in gone THEN DeletedConversation(i) ELSE Cv[i]],
         messages |->
             [j \in DOMAIN M |->
                 IF LiveMessage(M, j) /\ M[j].conversation_id \in gone
                 THEN DeletedMessage(j) ELSE M[j]],
         count |-> Cardinality(gone)]

\* POST /reset {reset_type: "conversation", user_id} ->
\* clear_user_conversations(user_id), in a process of its own.
ClearUserConversations(u) ==
    /\ LET r == ClearUserConversationsRows(conversations, messages, u)
       IN  /\ conversations' = r.conversations
           /\ messages' = r.messages
           /\ last' = [op |-> "clear_user_conversations", user |-> u,
                       count |-> r.count]
    /\ UNCHANGED <<turn, started, users, user_sessions>>
    /\ UNCHANGED <<chunkVars, ingestVars, now, session_calls>>

\* The turns of one worker, and conversation resets that can come between
\* any two steps of a turn, the query and the commit of save_message
\* included.
ClearNext ==
    \/ \E p \in DOMAIN turn, msg \in UserMessages, u \in TurnUserIds,
          sid \in TurnSessionIds : StartTurn(p, msg, u, sid)
    \/ \E p \in DOMAIN turn : DoIdentify(p)
    \/ \E p \in DOMAIN turn : DoPersistInbound(p)
    \/ \E p \in DOMAIN turn : DoSaveInbound(p)
    \/ \E p \in DOMAIN turn : DoSelectAgent(p)
    \/ \E p \in DOMAIN turn : DoRetrieveContext(p, FALSE)
    \/ \E p \in DOMAIN turn :
          DoExtractProfile(p, [kind |-> "object", info |-> <<>>], TRUE)
    \/ \E p \in DOMAIN turn : DoCompose(p)
    \/ \E p \in DOMAIN turn, reply \in Replies : DoGenerate(p, TRUE, reply)
    \/ \E p \in DOMAIN turn : DoPersistOutbound(p)
    \/ \E p \in DOMAIN turn : DoSaveOutbound(p)
    \/ \E p \in DOMAIN turn : DoClassify(p, FALSE)
    \/ \E p \in DOMAIN turn : FinishTurn(p)
    \/ \E u \in TurnUserIds : ClearUserConversations(u)

SpecClear == TurnInit /\ [][ClearNext]_vars

\* Message j keeps its content, role and conversation in this step.
MessageKept(j) == messages'[j] = messages[j]

\* Message j is removed in this step together with its conversation and
\* every other message of that conversation.
MessageClearedWithConversation(j) ==
    LET c == messages[j].conversation_id
    IN  /\ ~LiveMessage(messages', j)
        /\ ~LiveConversation(conversations', c)
        /\ \A k \in DOMAIN messages :
              messages[k].conversation_id = c => ~LiveMessage(messages', k)

\* C28: no step changes the content or role of a stored message; a message
\* goes only together with its conversation and all of that conversation's
\* messages; and after every step each stored message refers to a
\* conversation that exists, also when the conversations of the user are
\* cleared between the steps of one of the user's turns.
C28_AppendOnlyNeverOrphaned ==
    [][/\ \A j \in DOMAIN messages :
            LiveMessage(messages, j) =>
                (MessageKept(j) \/ MessageClearedWithConversation(j))
       /\ \A j \in DOMAIN messages' :
            LiveMessage(messages', j) =>
                LiveConversation(conversations', messages'[j].conversation_id)]_vars

\* The first two parts alone: they hold in every step of SpecClear.
MessagesAppendOnly ==
    [][\A j \in DOMAIN messages :
          LiveMessage(messages, j) =>
              (MessageKept(j) \/ MessageClearedWithConversation(j))]_vars

(***************************************************************************)
(* The bounded history (ConversationManager.get_conversation_history)      *)
(***************************************************************************)
\* Bound: the largest max_history of the managers called.
MaxHistoryLimit == 3
HistoryLimits == 0..MaxHistoryLimit

\* get_conversation_history(session_id, user_id) of a manager with the
\* given max_history, called between the steps of the turns.
GetHistoryCall(sid, u, max_history) ==
    /\ \E h \in ConversationHistory(conversations, messages, sid, u, max_history) :
          last' = [op |-> "get_conversation_history", session_id |-> sid,
                   user_id |-> u, max_history |-> max_history,
                   history |-> h, store |-> Store]
    /\ UNCHANGED <<turn, started, users, user_sessions, conversations, messages>>
    /\ UNCHANGED <<chunkVars, ingestVars, now, session_calls>>

\* One worker handling turns of two sessions one after another, and calls
\* of get_conversation_history; no operation of the store fails.
HistoryNext ==
    \/ \E p \in DOMAIN turn, msg \in UserMessages, u \in TurnUserIds,
          sid \in DialogSessionIds : StartTurn(p, msg, u, sid)
    \/ \E p \in DOMAIN turn : DoIdentify(p)
    \/ \E p \in DOMAIN turn : DoPersistInbound(p)
    \/ \E p \in DOMAIN turn : DoSaveInbound(p)
    \/ \E p \in DOMAIN turn : DoSelectAgent(p)
    \/ \E p \in DOMAIN turn : DoRetrieveContext(p, FALSE)
    \/ \E p \in DOMAIN turn :
          DoExtractProfile(p, [kind |-> "object", info |-> <<>>], TRUE)
    \/ \E p \in DOMAIN turn : DoCompose(p)
    \/ \E p \in DOMAIN turn, reply \in Replies : DoGenerate(p, TRUE, reply)
    \/ \E p \in DOMAIN turn : DoPersistOutbound(p)
    \/ \E p \in DOMAIN turn : DoSaveOutbound(p)
    \/ \E p \in DOMAIN turn : DoClassify(p, FALSE)
    \/ \E p \in DOMAIN turn : FinishTurn(p)
    \/ \E sid \in DialogSessionIds, u \in TurnUserIds, n \in HistoryLimits :
          GetHistoryCall(sid, u, n)

SpecHistory == TurnInit /\ [][HistoryNext]_vars

\* The messages stored for (u, sid) when the call was made, oldest first.
StoredFor(st, u, sid) ==
    SelectSeq(st.messages,
              LAMBDA m : m.conversation_id \in ConversationsIn(st.conversations, u, sid))

\* C29: get_conversation_history returns the min(n, max_history) most
\* recent of the conversation's n messages, oldest of them first, and the
\* empty list when the pair has no conversation.
C29_BoundedHistory ==
    last.op = "get_conversation_history" =>
        LET own == StoredFor(last.store, last.user_id, last.session_id)
            n == Len(own)
            k == Min(n, last.max_history)
            h == last.history
        IN  /\ Len(h) = k
            /\ \A i \in 1..k :
                  /\ h[i].role = own[n - k + i].role
                  /\ h[i].content = own[n - k + i].content
            /\ ConversationsIn(last.store.conversations, last.user_id,
                               last.session_id) = {} => h = <<>>

\* A call that truncated: the conversation held more messages than
\* max_history, and the oldest differs from the oldest returned.
C29_OldestTruncated ==
    /\ last.op = "get_conversation_history"
    /\ LET own == StoredFor(last.store, last.user_id, last.session_id)
       IN  /\ Len(own) > last.max_history
           /\ last.max_history >= 2
           /\ own[1].content # last.history[1].content

(***************************************************************************)
(* The history window of agent selection inside a turn                     *)
(***************************************************************************)
\* Bound: the turns of a session handled one after another.
MaxWindowTurns == 3

\* What the users say and what the provider answers.
WindowMessages ==
    {<<"h", "i">>,
     <<"r", "e", "n", "t">>}
WindowReplies ==
    {<<"o", "k">>,
     <<"l", "e", "a", "s", "e">>}

\* process_message(message, user_id, session_id) is called.
WindowStart(p, msg, u, sid) ==
    /\ turn[p].pc = "idle"
    /\ started < MaxWindowTurns
    /\ started' = started + 1
    /\ turn' = [turn EXCEPT ![p] = [IdleTurn EXCEPT !.pc = "IDENTIFY",
                                       !.message = msg, !.user_id = u,
                                       !.session_id = sid]]
    /\ UNCHANGED <<conversations, messages, users, user_sessions>>
    /\ UNCHANGED notTurnVars

\* One worker handling the turns of a session one after another; no
\* operation fails.
WindowNext ==
    \/ \E p \in DOMAIN turn, msg \in WindowMessages, u \in TurnUserIds,
          sid \in TurnSessionIds : WindowStart(p, msg, u, sid)
    \/ \E p \in DOMAIN turn : DoIdentify(p)
    \/ \E p \in DOMAIN turn : DoPersistInbound(p)
    \/ \E p \in DOMAIN turn : DoSaveInbound(p)
    \/ \E p \in DOMAIN turn : DoSelectAgent(p)
    \/ \E p \in DOMAIN turn : DoRetrieveContext(p, FALSE)
    \/ \E p \in DOMAIN turn :
          DoExtractProfile(p, [kind |-> "object", info |-> <<>>], TRUE)
    \/ \E p \in DOMAIN turn : DoCompose(p)
    \/ \E p \in DOMAIN turn, reply \in WindowReplies : DoGenerate(p, TRUE, reply)
    \/ \E p \in DOMAIN turn : DoPersistOutbound(p)
    \/ \E p \in DOMAIN turn : DoSaveOutbound(p)
    \/ \E p \in DOMAIN turn : DoClassify(p, FALSE)
    \/ \E p \in DOMAIN turn : FinishTurn(p)

SpecWindow == TurnInit /\ [][WindowNext]_vars

\* The messages of the turn's session stored before the turn's own message.
StoredBefore(p) ==
    LET own == MessagesOf(turn[p].user_id, turn[p].session_id)
    IN  SubSeq(own, 1, Len(own) - 1)

\* One of the 3 most recent messages stored before the turn's message
\* contains a domain keyword.
KeywordInLastThreeBefore(p) ==
    LET recent == LastN(StoredBefore(p), SelectWindow)
    IN  \E i \in DOMAIN recent : AnyIn(RealEstateKeywords, PyLower(recent[i].content))

\* C30: when a turn whose message matches neither keyword set selects its
\* agent, it selects the domain specialist exactly when one of the 3 most
\* recent messages stored before that message contains a domain keyword.
C30_WindowExcludesCurrentMessage ==
    [][\A p \in DOMAIN turn :
          (/\ turn[p].pc = "SELECT_AGENT"
           /\ turn'[p].pc = "RETRIEVE_CONTEXT"
           /\ ~AnyIn(RealEstateKeywords, PyLower(turn[p].message))
           /\ ~AnyIn(CrmKeywords, PyLower(turn[p].message)))
          => (turn'[p].agent = "real_estate_agent" <=> KeywordInLastThreeBefore(p))]_vars

=============================================================================
